---- MODULE Spec2Model ----
(***************************************************************************)
(* The live EMG classification loop of the prosthetic-hand scripts:        *)
(*   ML/pipeline.py              live_stream_mode: EMG -> SVM -> servo arm *)
(*   ML/myowareLIVECLASSIFYING.py run_live: EMG -> SVM -> smoothing ->     *)
(*                               image display                             *)
(* Both scripts share EMGStream (handle / get_window) and the step         *)
(* throttle; they differ in what follows model.predict.                    *)
(*                                                                         *)
(* Scheduling: bleak delivers notifications as callbacks on the asyncio    *)
(* event loop, so EMGStream.handle runs only while the loop coroutine is   *)
(* suspended in `await asyncio.sleep(0.01)`.  One pass of the `while True` *)
(* body is therefore one atomic action, interleaved with handle calls.     *)
(*                                                                         *)
(* Python values: None is the string "None" where the other values are     *)
(* strings (labels), and a record tagged kind = "None" where they are      *)
(* lists (windows).                                                        *)
(***************************************************************************)
EXTENDS Integers, Sequences, FiniteSets, TLC

VARIABLES
    program,                \* which script is running: "pipeline" or "live"
    task,                   \* the loop coroutine: "running" or "crashed"
    M1, M2,                 \* EMGStream.buffer of the two module-level streams
    last_step,              \* local of live_stream_mode / run_live
    prediction_history,     \* module global of myowareLIVECLASSIFYING.py
    last_pred,              \* module global of pipeline.py
    current_image_class,    \* module global of myowareLIVECLASSIFYING.py
    arm,                    \* the Arm: curr_pos of its servos, angle of the kit channels
    held,                   \* a window a consumer got from M1.get_window()
    scaler_features,        \* n_features_in_ of the loaded scaler/model, 0 = not loaded
    connected,              \* both BleakClients are open and notifying
    win1, win2,             \* arguments of a window_to_vector call
    feats,                  \* what compute_features(win1) returned
    row,                    \* what window_to_vector(win1, win2) returned
    \* ---- history variables (observations, not program state) ----
    held_fresh,             \* nothing was appended to M1 since `held` was returned
    loop_outcome,           \* branch taken by the last loop pass
    stages,                 \* stages run by the last classification step
    raw_log,                \* every value model.predict has returned
    smoothed,               \* last value classify returned
    replay_history,         \* a second smoother fed the same raw predictions
    replay_smoothed,        \*   and what it returned last
    labels_in,              \* every label handed to the dispatcher
    dispatched,             \* every dispatch: the label and what was invoked
    arrivals,               \* stream on its own: the numeric payloads, as floats
    last_data,              \*   the payload of the last notification
    malformed_seen,         \*   some payload so far was not numeric
    handle_raised,          \*   an exception has escaped from handle
    arm_sets,               \* arm on its own: direct set_servo_pos calls so far
    prev_attempt,           \* statement by statement: what the last attempt used
    \* ---- the data collectors (DATA/myoware_collector*.py) ----
    script,                 \* which collector is running
    data_dir,               \* the file names in DATA_DIR
    saved,                  \* history: the names chosen by the saves so far
    recording,              \* Collector.recording
    label_slug,             \* Collector.label_slug
    rows,                   \* Collector.rows: the label and value of each row
    ui,                     \* where the UI thread stands inside on_key
    ble,                    \* where the BLE thread stands inside _handle_line
    lines_in,               \* history: lines handed to _handle_line so far
    session,                \* history: lines received while recording was true
    keys_in,                \* history: the keys pressed so far
    csv_files,              \* history: the name and rows of each file written
    line_buf,               \* Collector._line_buf["t"], a sequence of characters
    handled,                \* the numbers of each line given to _handle_line
    packets,                \* the notifications still to come
    stream,                 \* history: the characters the sensor sends in all
    conn,                   \* where connect_auto stands
    client,                 \* Collector.client: None, or how it was connected
    found,                  \* connect_auto: a scan has matched the device
    elapsed,                \* connect_auto: time.time() - t0, in seconds
    events,                 \* history: what connect_auto has done so far
    bg,                     \* where the BLE thread stands in run's bg / async_task
    quit,                   \* where the UI thread stands in run
    stop_event,             \* Collector.stop_event: None, "clear" or "set"
    loop,                   \* Collector.loop is set
    shutdown                \* history: the BLE calls made after the wait

streamVars == <<M1, M2>>
smootherVars == <<prediction_history, smoothed, replay_history, replay_smoothed>>
dispatchVars == <<last_pred, current_image_class, labels_in, dispatched, arm>>
consumerVars == <<held, held_fresh>>
loopVars == <<last_step, loop_outcome, stages, raw_log, task>>
ingestVars == <<arrivals, last_data, malformed_seen, handle_raised>>
startupVars == <<scaler_features, connected>>
featureVars == <<win1, win2, feats, row>>
fileVars == <<data_dir, saved>>
recordVars == <<recording, label_slug, rows, ui, ble, lines_in, session, keys_in, csv_files>>
notifyVars == <<line_buf, handled, packets, stream>>
connectVars == <<conn, client, found, elapsed, events>>
quitVars == <<bg, quit, stop_event, loop, shutdown>>
collectorVars == <<script, fileVars, recordVars, notifyVars, connectVars, quitVars>>
pipelineVars == <<program, streamVars, smootherVars, dispatchVars, consumerVars, loopVars,
                  ingestVars, startupVars, featureVars, arm_sets, prev_attempt>>
vars == <<pipelineVars, collectorVars>>

----------------------------------------------------------------------------
(* Program constants *)

WINDOW_SIZE == 50
STEP_SIZE == 10
PREDICTION_SMOOTH_WINDOW == 5

(* Bounds of the model *)

\* samples accepted per channel in the live loop
MaxSamples == 70
\* samples accepted by the stream in the buffer-only specification
MaxBuffer == 53
\* nonzero samples among them (the rest of the signal is the baseline 0)
MaxSpikes == 1
\* direct calls of classify in the smoother specification
MaxClassify == 7
\* direct calls of the dispatcher in the dispatcher specification
MaxDispatch == 6
\* samples per channel in the start-up and shutdown specification
MaxStartupSamples == 51
\* length of the windows handed to the feature extractor on its own
MaxWindowLen == 3
\* direct set_servo_pos calls in the arm specification
MaxArmSets == 1
\* samples per channel in the specification with fair scheduling
MaxLiveSamples == 61
\* samples per channel in the statement-by-statement specification
MaxSnapshotSamples == 61
\* sessions saved by a collector
MaxSaves == 3
\* keys pressed in a collector window
MaxKeys == 6
\* lines a collector receives
MaxLines == 3
\* characters of the longest stream cut into notifications
MaxStreamLen == 8
\* seconds of scanning looked at
MaxScanSeconds == 14

Programs == {"pipeline", "live"}

\* The classes the trained model can answer.  np.unique sorts them as
\* strings; LabelOrder is that order.
LabelOrder == <<"closed_fist", "flat_hand", "pinch">>
Labels == {LabelOrder[i] : i \in DOMAIN LabelOrder}

None == "None"

----------------------------------------------------------------------------
(* EMGStream *)

\* Notification payloads after data.decode(errors="ignore").strip():
\* three that float() accepts and one it rejects with ValueError.
Numeric == {"-1", "0", "1"}
Payloads == Numeric \cup {"x"}

float(text) ==
    CASE text = "-1" -> -1
      [] text = "0"  -> 0
      [] text = "1"  -> 1

\* Whether an exception escapes from handle: the bare `except: pass` around
\* the whole body swallows whatever decode, float or append raise.
handle_raises(data) == FALSE

\* Variant of handle that skips a sample equal to the one before it.
handle_dedup(buffer, data) ==
    IF data \in Numeric /\ (Len(buffer) = 0 \/ buffer[Len(buffer)] # float(data))
    THEN Append(buffer, float(data))
    ELSE buffer

\* Variant of handle that appends a 0 for a payload float rejects.
handle_zeroFill(buffer, data) ==
    IF data \in Numeric THEN Append(buffer, float(data)) ELSE Append(buffer, 0)

\* Variant of handle that keeps at most WINDOW_SIZE samples (a ring buffer).
handle_dropFirst(buffer, data) ==
    IF data \in Numeric
    THEN IF Len(buffer) >= WINDOW_SIZE
         THEN Append(Tail(buffer), float(data))
         ELSE Append(buffer, float(data))
    ELSE buffer

\* EMGStream.handle: append float(text); any exception is swallowed.
handle(buffer, data) ==
    IF data \in Numeric THEN Append(buffer, float(data)) ELSE buffer

\* Python buffer[-n:] for len(buffer) >= n: a new list.
LastN(buffer, n) == SubSeq(buffer, Len(buffer) - n + 1, Len(buffer))

NoWindow == [kind |-> "None", shared |-> FALSE, items |-> <<>>]

\* Variant of get_window that returns a live view of the buffer's tail.
get_window_view(buffer) ==
    IF Len(buffer) >= WINDOW_SIZE
    THEN [kind |-> "list", shared |-> TRUE, items |-> <<>>]
    ELSE NoWindow

\* Variant of get_window that slices buffer[:WINDOW_SIZE].
get_window_head(buffer) ==
    IF Len(buffer) >= WINDOW_SIZE
    THEN [kind |-> "list", shared |-> FALSE, items |-> SubSeq(buffer, 1, WINDOW_SIZE)]
    ELSE NoWindow

\* Variant of get_window that raises on a short buffer instead of returning None.
get_window_raise(buffer) ==
    IF Len(buffer) >= WINDOW_SIZE
    THEN [kind |-> "list", shared |-> FALSE, items |-> LastN(buffer, WINDOW_SIZE)]
    ELSE [kind |-> "raise", shared |-> FALSE, items |-> <<>>]

\* EMGStream.get_window.  The slice is a new list object (shared = FALSE):
\* it holds the elements the buffer had when it was taken.
get_window(buffer) ==
    IF Len(buffer) >= WINDOW_SIZE
    THEN [kind |-> "list", shared |-> FALSE, items |-> LastN(buffer, WINDOW_SIZE)]
    ELSE NoWindow

\* What a consumer reads through a window it holds: the elements of the list
\* object it refers to.  A list that shares storage with the stream's buffer
\* would show the buffer's current tail.
Contents(w, buffer) ==
    IF w.shared THEN LastN(buffer, WINDOW_SIZE) ELSE w.items

\* Python truth value of a window: None and the empty list are false.
truthy(w, buffer) == w.kind = "list" /\ Len(Contents(w, buffer)) > 0

----------------------------------------------------------------------------
(* FeatureExtractor: compute_features and window_to_vector *)

\* A feature value, exact: num/den, or its square root when root is TRUE.
\* (The code computes in float64; the windows of the model give values
\* that float64 holds exactly before the square root.)
Val(num, den, root) == [num |-> num, den |-> den, root |-> root]

Whole(n) == Val(n, 1, FALSE)

Abs(x) == IF x < 0 THEN -x ELSE x

\* Variant of the sign that counts zero as positive.
Sign_zeroPositive(x) == IF x < 0 THEN -1 ELSE 1

\* np.sign
Sign(x) == IF x < 0 THEN -1 ELSE IF x > 0 THEN 1 ELSE 0

RECURSIVE SumSeq(_)
SumSeq(s) == IF Len(s) = 0 THEN 0 ELSE s[1] + SumSeq(Tail(s))

\* np.max of a non-empty array
Max(s) == CHOOSE m \in {s[i] : i \in DOMAIN s} : \A i \in DOMAIN s : s[i] <= m

\* Variant of diff with prepend=0: one difference per sample.
diff_prepend0(s) ==
    [i \in 1..Len(s) |-> IF i = 1 THEN s[1] ELSE s[i] - s[i - 1]]

\* np.diff: s[i+1] - s[i]; empty for an array of fewer than two elements.
diff(s) == [i \in 1..(Len(s) - 1) |-> s[i + 1] - s[i]]

\* np.sum(a != 0)
CountNonzero(a) == Cardinality({i \in DOMAIN a : a[i] # 0})

\* Variant of compute_features with the sample variance and standard
\* deviation (ddof=1).
compute_features_sample(signal) ==
    LET n == Len(signal)
        sum == SumSeq(signal)
        sumsq == SumSeq([i \in DOMAIN signal |-> signal[i] * signal[i]])
    IN  [rms |-> Val(sumsq, n, TRUE),
         mean_abs |-> Val(SumSeq([i \in DOMAIN signal |-> Abs(signal[i])]), n, FALSE),
         waveform_length |-> Whole(SumSeq([i \in DOMAIN diff(signal) |-> Abs(diff(signal)[i])])),
         zero_cross |-> Whole(CountNonzero(diff([i \in DOMAIN signal |-> Sign(signal[i])]))),
         slope_changes |-> Whole(CountNonzero(
             diff([i \in DOMAIN diff(signal) |-> Sign(diff(signal)[i])]))),
         var |-> Val(n * sumsq - sum * sum, n * (n - 1), FALSE),
         std |-> Val(n * sumsq - sum * sum, n * (n - 1), TRUE),
         max |-> Whole(Max(signal))]

\* Variant of compute_features whose var and std are taken about zero
\* (the mean square) instead of about the mean.
compute_features_uncentred(signal) ==
    LET n == Len(signal)
        sumsq == SumSeq([i \in DOMAIN signal |-> signal[i] * signal[i]])
    IN  [rms |-> Val(sumsq, n, TRUE),
         mean_abs |-> Val(SumSeq([i \in DOMAIN signal |-> Abs(signal[i])]), n, FALSE),
         waveform_length |-> Whole(SumSeq([i \in DOMAIN diff(signal) |-> Abs(diff(signal)[i])])),
         zero_cross |-> Whole(CountNonzero(diff([i \in DOMAIN signal |-> Sign(signal[i])]))),
         slope_changes |-> Whole(CountNonzero(
             diff([i \in DOMAIN diff(signal) |-> Sign(diff(signal)[i])]))),
         var |-> Val(sumsq, n, FALSE),
         std |-> Val(sumsq, n, TRUE),
         max |-> Whole(Max(signal))]

\* compute_features: the dict of the eight time-domain features.
\* np.var and np.std are the population statistics:
\* var = mean(x^2) - mean(x)^2 = (n*sum(x^2) - sum(x)^2) / n^2.
compute_features(signal) ==
    LET n == Len(signal)
        sum == SumSeq(signal)
        sumsq == SumSeq([i \in DOMAIN signal |-> signal[i] * signal[i]])
    IN  [rms |-> Val(sumsq, n, TRUE),
         mean_abs |-> Val(SumSeq([i \in DOMAIN signal |-> Abs(signal[i])]), n, FALSE),
         waveform_length |-> Whole(SumSeq([i \in DOMAIN diff(signal) |-> Abs(diff(signal)[i])])),
         zero_cross |-> Whole(CountNonzero(diff([i \in DOMAIN signal |-> Sign(signal[i])]))),
         slope_changes |-> Whole(CountNonzero(
             diff([i \in DOMAIN diff(signal) |-> Sign(diff(signal)[i])]))),
         var |-> Val(n * sumsq - sum * sum, n * n, FALSE),
         std |-> Val(n * sumsq - sum * sum, n * n, TRUE),
         max |-> Whole(Max(signal))]

\* window_to_vector: `keys`
keys ==
    <<"rms", "mean_abs", "waveform_length", "zero_cross", "slope_changes",
      "var", "std", "max">>

\* Variant of window_to_vector that concatenates [v2, v1].
window_to_vector_swapped(w1, w2) ==
    LET f1 == compute_features(w1)
        f2 == compute_features(w2)
        v1 == [k \in DOMAIN keys |-> f1[keys[k]]]
        v2 == [k \in DOMAIN keys |-> f2[keys[k]]]
    IN  v2 \o v1

\* window_to_vector: the one row of np.concatenate([v1, v2]).reshape(1, -1)
window_to_vector(w1, w2) ==
    LET f1 == compute_features(w1)
        f2 == compute_features(w2)
        v1 == [k \in DOMAIN keys |-> f1[keys[k]]]
        v2 == [k \in DOMAIN keys |-> f2[keys[k]]]
    IN  v1 \o v2

\* combined.shape[1]: the length of the row handed to scaler.transform
LIVE_FEATURE_COUNT == Len(keys) + Len(keys)

----------------------------------------------------------------------------
(* Throttle *)

\* Variant of the throttle that lets every new sample through.
throttle_met_everySample(len1, last) == len1 - last >= 1

\* Variant of the throttle that fires only on exactly STEP_SIZE new samples.
throttle_met_exactStep(len1, last) == len1 - last = STEP_SIZE

\* `len(M1.buffer) - last_step >= STEP_SIZE`
throttle_met(len1, last) == len1 - last >= STEP_SIZE

----------------------------------------------------------------------------
(* PredictionSmoother: the tail of classify *)

\* Variant of push_history that pops the newest entry (pop() for pop(0)).
push_history_popNewest(history, pred) ==
    IF Len(history) + 1 > PREDICTION_SMOOTH_WINDOW
    THEN history
    ELSE Append(history, pred)

\* prediction_history.append(pred); pop(0) once longer than the window.
push_history(history, pred) ==
    LET appended == Append(history, pred)
    IN  IF Len(appended) > PREDICTION_SMOOTH_WINDOW
        THEN Tail(appended)
        ELSE appended

Count(label, history) == Cardinality({i \in DOMAIN history : history[i] = label})

\* np.unique(prediction_history, return_counts=True): the distinct labels in
\* sorted order, and how often each occurs.
unique_values(history) ==
    SelectSeq(LabelOrder, LAMBDA l : \E i \in DOMAIN history : history[i] = l)

unique_counts(history) ==
    [k \in DOMAIN unique_values(history) |-> Count(unique_values(history)[k], history)]

\* np.argmax: the first index holding the maximum.
argmax(counts) ==
    CHOOSE k \in DOMAIN counts :
        /\ \A j \in DOMAIN counts : counts[j] <= counts[k]
        /\ \A j \in 1..(k - 1) : counts[j] < counts[k]

\* Variant of the smoother that returns the newest raw prediction.
smoothed_outcomes_newest(history) == {history[Len(history)]}

\* Variant of the smoother that takes the first maximum of an unordered
\* count (iteration order of a set of strings differs from run to run).
smoothed_outcomes_anyMode(history) ==
    {l \in Labels : /\ Count(l, history) > 0
                    /\ \A m \in Labels : Count(m, history) <= Count(l, history)}

\* Variant of the smoother that breaks a tie by age: of the labels with the
\* highest count, the one whose first occurrence in the history is oldest.
smoothed_outcomes_firstSeen(history) ==
    {l \in Labels :
        /\ Count(l, history) > 0
        /\ \A m \in Labels : Count(m, history) <= Count(l, history)
        /\ \A m \in Labels :
               Count(m, history) = Count(l, history) =>
                   \E i \in DOMAIN history :
                       /\ history[i] = l
                       /\ \A j \in 1..(i - 1) : history[j] # m}

\* The values `values[np.argmax(counts)]` can evaluate to for a non-empty
\* history: np.unique fixes the order of `values`, so there is one.
smoothed_outcomes(history) ==
    {unique_values(history)[argmax(unique_counts(history))]}

\* classify(win1, win2) from model.predict on: pred is what predict returned.
\* The replay smoother is run on the same raw prediction.
classify(pred) ==
    /\ raw_log' = Append(raw_log, pred)
    /\ prediction_history' = push_history(prediction_history, pred)
    /\ \E out \in smoothed_outcomes(prediction_history') : smoothed' = out
    /\ replay_history' = push_history(replay_history, pred)
    /\ \E out \in smoothed_outcomes(replay_history') : replay_smoothed' = out

----------------------------------------------------------------------------
(* Servo and Arm *)

\* Arm.__init__: default position, start_deg and end_deg of the servos
\* with pca_id 0..15, in the order of self.arm.
ServoTable ==
    << <<80, 0, 160>>,  <<0, 0, 180>>,   <<60, 0, 110>>,  <<0, 0, 180>>,
       <<0, 0, 180>>,   <<60, 10, 110>>, <<180, 0, 180>>, <<0, 0, 180>>,
       <<90, 75, 130>>, <<0, 0, 180>>,   <<0, 0, 180>>,   <<60, 40, 100>>,
       <<0, 0, 180>>,   <<0, 0, 180>>,   <<100, 100, 150>>, <<90, 60, 120>> >>

ServoIds == 0..(Len(ServoTable) - 1)

default_pos(servo_id) == ServoTable[servo_id + 1][1]
start_deg(servo_id) == ServoTable[servo_id + 1][2]
end_deg(servo_id) == ServoTable[servo_id + 1][3]

\* The Arm after __init__: curr_pos = default_pos, and the kit channels are
\* set to the default positions.
NewArm ==
    [curr_pos |-> [i \in ServoIds |-> default_pos(i)],
     angle    |-> [i \in ServoIds |-> default_pos(i)]]

\* Variant of the bounds check that only looks at the upper bound.
within_bounds_upperOnly(servo_id, new_pos) == ~(new_pos > end_deg(servo_id))

\* Variant of within_bounds that refuses the two bounds themselves.
within_bounds_exclusive(servo_id, new_pos) ==
    ~(new_pos >= end_deg(servo_id) \/ new_pos <= start_deg(servo_id))

\* Servo.within_bounds
within_bounds(servo_id, new_pos) ==
    ~(new_pos > end_deg(servo_id) \/ new_pos < start_deg(servo_id))

\* Variant of set_servo_pos that turns a servo by at most 90 degrees a call.
set_servo_pos_limited(a, servo_id, new_pos) ==
    IF ~within_bounds(servo_id, new_pos)
    THEN a
    ELSE LET here == a.curr_pos[servo_id]
             reached == IF new_pos > here + 90 THEN here + 90
                        ELSE IF new_pos < here - 90 THEN here - 90
                        ELSE new_pos
         IN  [curr_pos |-> [a.curr_pos EXCEPT ![servo_id] = reached],
              angle    |-> [a.angle EXCEPT ![servo_id] = reached]]

\* Arm.set_servo_pos
set_servo_pos(a, servo_id, new_pos) ==
    IF ~within_bounds(servo_id, new_pos)
    THEN a
    ELSE [curr_pos |-> [a.curr_pos EXCEPT ![servo_id] = new_pos],
          angle    |-> [a.angle EXCEPT ![servo_id] = new_pos]]

\* A method body that is a run of set_servo_pos calls: cmds is the list of
\* <<servo_id, new_pos>> in call order.  The calls run one after the other:
\* `here` is the arm the next call finds and `rest` the calls still to run,
\* both bound to their values before that call is evaluated.
RECURSIVE Moves(_, _)
Moves(a, cmds) ==
    CHOOSE after \in
        { IF rest = <<>> THEN here
          ELSE Moves(set_servo_pos(here, rest[1][1], rest[1][2]), Tail(rest))
          : here \in {a}, rest \in {cmds} } : TRUE

\* range(from, to, step) of Python for step # 0, as a sequence.
RECURSIVE range(_, _, _)
range(from, to, step) ==
    IF (step > 0 /\ from >= to) \/ (step < 0 /\ from <= to) THEN <<>>
    ELSE <<from>> \o range(from + step, to, step)

\* <<servo_id, i>> for the i of a range
Sweep(servo_id, r) == [k \in DOMAIN r |-> <<servo_id, r[k]>>]

RECURSIVE Repeat(_, _)
Repeat(cmds, times) == IF times = 0 THEN <<>> ELSE cmds \o Repeat(cmds, times - 1)

reset_lats(a) ==
    Moves(a, << <<0, default_pos(0)>>, <<2, default_pos(2)>>, <<5, default_pos(5)>>,
                <<8, default_pos(8)>>, <<11, default_pos(11)>> >>)

spock(a) == Moves(a, << <<2, 30>>, <<5, 30>>, <<8, 130>>, <<11, 90>> >>)

close_pointer_finger(a) == Moves(a, << <<3, 180>>, <<4, 180>> >>)
close_middle_finger(a) == Moves(a, << <<6, 0>>, <<7, 180>> >>)
close_ring_finger(a) == Moves(a, << <<9, 180>>, <<10, 180>> >>)
close_pinkie_finger(a) == Moves(a, << <<12, 180>>, <<13, 180>> >>)
close_thumb(a) == Moves(a, << <<1, 180>> >>)

open_pointer_finger(a) == Moves(a, << <<3, 0>>, <<4, 0>> >>)
open_middle_finger(a) == Moves(a, << <<6, 180>>, <<7, 0>> >>)
open_ring_finger(a) == Moves(a, << <<9, 0>>, <<10, 0>> >>)
open_pinkie_finger(a) == Moves(a, << <<12, 0>>, <<13, 0>> >>)
open_thumb(a) == Moves(a, << <<1, 0>> >>)

\* Variant of reset that leaves the finger joints where they are.
reset_lateralsAndWrist(a) ==
    Moves(a, << <<0, default_pos(0)>>, <<2, default_pos(2)>>, <<5, default_pos(5)>>,
                <<8, default_pos(8)>>, <<11, default_pos(11)>>,
                <<14, default_pos(14)>>, <<15, default_pos(15)>> >>)

\* `for servo in self.arm: self.set_servo_pos(servo.pca_id, servo.default_pos)`
reset(a) == Moves(a, [k \in 1..Len(ServoTable) |-> <<k - 1, default_pos(k - 1)>>])

close_fist(a) ==
    close_thumb(close_pinkie_finger(close_ring_finger(
        close_middle_finger(close_pointer_finger(a)))))

left_right_wave(a) ==
    reset_lats(Moves(a,
        << <<14, 120>>, <<15, 80>> >>
        \o Repeat(Sweep(15, range(60, 121, 10)) \o Sweep(15, range(120, 59, -10)), 5)
        \o << <<15, default_pos(15)>>, <<14, default_pos(14)>> >>))

top_down_wave(a) ==
    Moves(a,
        << <<14, default_pos(14)>> >>
        \o Repeat(Sweep(14, range(default_pos(14), end_deg(14) + 1, 10))
                  \o Sweep(14, range(end_deg(14), default_pos(14) + 1, -10)), 5)
        \o << <<14, default_pos(14)>> >>)

the_bird(a) ==
    close_thumb(close_pointer_finger(close_ring_finger(close_pinkie_finger(a))))

peace(a) == close_thumb(close_ring_finger(close_pinkie_finger(a)))

----------------------------------------------------------------------------
(* ActuationDispatcher *)

\* Variant of the dispatcher's guard that never suppresses a label.
is_repeat_never(pred, last) == FALSE

\* Variant of the test that also passes over a label with no arm action.
is_repeat_orUnmapped(pred, last) ==
    pred = last \/ pred \notin {"flat_hand", "closed_fist"}

\* `if pred == last_pred: return`
is_repeat(pred, last) == pred = last

\* Variant of the mapping whose else branch opens the hand.
arm_action_elseReset(pred) ==
    CASE pred = "closed_fist" -> "close_fist"
      [] OTHER                -> "reset"

\* pipeline.py: the if / elif / else after the print.
arm_action(pred) ==
    CASE pred = "flat_hand"   -> "reset"
      [] pred = "closed_fist" -> "close_fist"
      [] OTHER                -> "no_action"

\* What the branch taken does to the arm.
run_arm_action(action, a) ==
    CASE action = "reset"      -> reset(a)
      [] action = "close_fist" -> close_fist(a)
      [] OTHER                 -> a

apply_prediction_to_arm(pred) ==
    /\ labels_in' = Append(labels_in, pred)
    /\ IF is_repeat(pred, last_pred)
       THEN UNCHANGED <<last_pred, dispatched, arm>>
       ELSE /\ last_pred' = pred
            /\ dispatched' = Append(dispatched,
                                    [label |-> pred, action |-> arm_action(pred)])
            /\ arm' = run_arm_action(arm_action(pred), arm)
    /\ UNCHANGED current_image_class

\* myowareLIVECLASSIFYING.py: the keys of CLASS_TO_IMAGE.
CLASS_TO_IMAGE == {"flat_hand", "closed_fist", "pinch"}

\* exists: what os.path.exists(path) answers for the image file.
show_prediction_image(pred_class, exists) ==
    /\ labels_in' = Append(labels_in, pred_class)
    /\ IF is_repeat(pred_class, current_image_class)
       THEN UNCHANGED <<current_image_class, dispatched>>
       ELSE /\ current_image_class' = pred_class
            /\ dispatched' = Append(dispatched,
                   [label |-> pred_class,
                    action |-> IF pred_class \in CLASS_TO_IMAGE /\ exists
                               THEN "imshow" ELSE "warning"])
    /\ UNCHANGED <<last_pred, arm>>

----------------------------------------------------------------------------
(* StreamScheduler: one pass of the `while True` body *)

\* scaler.transform(x) raises ValueError when the row has another number of
\* features than the scaler was fit on (n_features_in_).
transform_raises(n_features_in) == n_features_in # LIVE_FEATURE_COUNT

\* The calls of one classification step of live_stream_mode, in order.
live_stream_mode_calls ==
    <<"window", "features", "scale", "classify", "dispatch">>

\* Variant of classify that calls model.predict on the unscaled row.
run_live_calls_unscaled ==
    <<"window", "features", "classify", "smooth", "dispatch">>

\* The calls of one classification step of run_live (classify, then
\* show_prediction_image), in order.
run_live_calls ==
    <<"window", "features", "scale", "classify", "smooth", "dispatch">>

\* The calls made up to the one that raised.
CallsUpTo(calls, name) ==
    SubSeq(calls, 1, CHOOSE i \in DOMAIN calls : calls[i] = name)

\* pipeline.py live_stream_mode
live_stream_mode ==
    /\ program = "pipeline"
    /\ task = "running"
    /\ LET w1 == get_window(M1)
           w2 == get_window(M2)
       IN  IF w1.kind = "raise" \/ w2.kind = "raise"
           THEN /\ task' = "crashed"
                /\ loop_outcome' = "error"
                /\ UNCHANGED <<last_step, stages, raw_log, dispatchVars>>
           ELSE IF truthy(w1, M1) /\ truthy(w2, M2)
           THEN IF throttle_met(Len(M1), last_step)
                THEN IF transform_raises(scaler_features)
                     THEN /\ last_step' = Len(M1)
                          /\ stages' = CallsUpTo(live_stream_mode_calls, "scale")
                          /\ task' = "crashed"
                          /\ loop_outcome' = "error"
                          /\ UNCHANGED <<raw_log, dispatchVars>>
                     ELSE /\ last_step' = Len(M1)
                          /\ \E pred \in Labels :
                                 /\ raw_log' = Append(raw_log, pred)
                                 /\ apply_prediction_to_arm(pred)
                          /\ stages' = live_stream_mode_calls
                          /\ loop_outcome' = "classified"
                          /\ UNCHANGED task
                ELSE /\ loop_outcome' = "throttled"
                     /\ UNCHANGED <<last_step, stages, raw_log, task, dispatchVars>>
           ELSE /\ loop_outcome' = "not_ready"
                /\ UNCHANGED <<last_step, stages, raw_log, task, dispatchVars>>
    /\ UNCHANGED <<collectorVars, program, arm_sets, prev_attempt, ingestVars, startupVars, featureVars,
                   streamVars, smootherVars, consumerVars>>

\* myowareLIVECLASSIFYING.py run_live
run_live ==
    /\ program = "live"
    /\ task = "running"
    /\ LET w1 == get_window(M1)
           w2 == get_window(M2)
       IN  IF w1.kind = "raise" \/ w2.kind = "raise"
           THEN /\ task' = "crashed"
                /\ loop_outcome' = "error"
                /\ UNCHANGED <<last_step, stages, raw_log, dispatchVars, smootherVars>>
           ELSE IF truthy(w1, M1) /\ truthy(w2, M2)
           THEN IF throttle_met(Len(M1), last_step)
                THEN IF transform_raises(scaler_features)
                     THEN /\ last_step' = Len(M1)
                          /\ stages' = CallsUpTo(run_live_calls, "scale")
                          /\ task' = "crashed"
                          /\ loop_outcome' = "error"
                          /\ UNCHANGED <<raw_log, dispatchVars, smootherVars>>
                     ELSE /\ last_step' = Len(M1)
                          /\ \E pred \in Labels, exists \in BOOLEAN :
                                 /\ classify(pred)
                                 /\ show_prediction_image(smoothed', exists)
                          /\ stages' = run_live_calls
                          /\ loop_outcome' = "classified"
                          /\ UNCHANGED task
                ELSE /\ loop_outcome' = "throttled"
                     /\ UNCHANGED <<last_step, stages, raw_log, task, dispatchVars,
                                    smootherVars>>
           ELSE /\ loop_outcome' = "not_ready"
                /\ UNCHANGED <<last_step, stages, raw_log, task, dispatchVars,
                               smootherVars>>
    /\ UNCHANGED <<collectorVars, program, arm_sets, prev_attempt, ingestVars, startupVars, featureVars,
                   streamVars, consumerVars>>

----------------------------------------------------------------------------
(* The sensors *)

\* The reading a sensor sends after n accepted ones: a repeating ramp, so
\* that neighbouring samples differ; a malformed payload can come any time.
SensorReading(n) ==
    CASE n % 3 = 0 -> "0"
      [] n % 3 = 1 -> "1"
      [] n % 3 = 2 -> "-1"

M1_notify ==
    /\ Len(M1) < MaxSamples
    /\ \E data \in {SensorReading(Len(M1)), "x"} : M1' = handle(M1, data)
    /\ UNCHANGED <<collectorVars, program, arm_sets, prev_attempt, ingestVars, startupVars, featureVars,
                   M2, smootherVars, dispatchVars, consumerVars, loopVars>>

M2_notify ==
    /\ Len(M2) < MaxSamples
    /\ \E data \in {SensorReading(Len(M2)), "x"} : M2' = handle(M2, data)
    /\ UNCHANGED <<collectorVars, program, arm_sets, prev_attempt, ingestVars, startupVars, featureVars,
                   M1, smootherVars, dispatchVars, consumerVars, loopVars>>

----------------------------------------------------------------------------
(* The data collectors: DATA/myoware_collector.py (Collector, one sensor)  *)
(* and DATA/myoware_collector3.py (DualCollector).  myoware_collector2.py  *)
(* has the functions of myoware_collector.py word for word, and            *)
(* myoware_collector_all.py has them once per sensor.                      *)

Scripts == {"myoware_collector", "myoware_collector3"}

\* LABELS: the slugs of the label keys.
Slugs == {"flat_hand", "closing_fist"}

\* str.lower on the slugs a file name can start with.
Lower(text) ==
    CASE text = "FLAT_HAND" -> "flat_hand"
      [] text = "CSV"       -> "csv"
      [] OTHER              -> text

\* A file name '<slug>_<digits>.<ext>' is the record of its three parts;
\* digits is the sequence of decimal digits as written, leading zeros kept.
FileName(slug, digits, ext) == [slug |-> slug, digits |-> digits, ext |-> ext]

\* int() of a digit string
RECURSIVE int(_)
int(digits) ==
    IF digits = <<>> THEN 0
    ELSE 10 * int(SubSeq(digits, 1, Len(digits) - 1)) + digits[Len(digits)]

\* str() of a natural number: its digits without leading zeros
RECURSIVE str(_)
str(n) == IF n < 10 THEN <<n>> ELSE Append(str(n \div 10), n % 10)

\* re.compile(rf"^{slug}_(\d+)\.{ext}$", re.IGNORECASE).match(name)
pattern_match(name, slug, ext) ==
    /\ Lower(name.slug) = Lower(slug)
    /\ Lower(name.ext) = Lower(ext)
    /\ Len(name.digits) > 0

\* Variant that numbers a file after the count of the label's files.
next_sequential_filename_count(dir, slug, ext) ==
    FileName(slug,
             str(Cardinality({name \in dir : pattern_match(name, slug, ext)}) + 1),
             ext)

\* myoware_collector.py: next_sequential_filename over os.listdir(DATA_DIR)
next_sequential_filename(dir, slug, ext) ==
    LET numbers == {int(name.digits) : name \in {f \in dir : pattern_match(f, slug, ext)}}
        max_n == IF numbers = {} THEN 0
                 ELSE CHOOSE m \in numbers : \A k \in numbers : k <= m
    IN  FileName(slug, str(max_n + 1), ext)

\* myoware_collector3.py: next_filename, counting i up from 1 until
\* os.path.exists answers False.
RECURSIVE first_unused(_, _, _)
first_unused(dir, slug, i) ==
    IF FileName(slug, str(i), "csv") \notin dir
    THEN FileName(slug, str(i), "csv")
    ELSE first_unused(dir, slug, i + 1)

next_filename(dir, slug) == first_unused(dir, slug, 1)

\* The name a save of the running script chooses.
chosen_filename(dir, slug) ==
    IF script = "myoware_collector"
    THEN next_sequential_filename(dir, slug, "csv")
    ELSE next_filename(dir, slug)

\* open(path, "w") ... writerows: the file is created (or overwritten).
write_csv(slug) ==
    LET name == chosen_filename(data_dir, slug)
    IN  /\ data_dir' = data_dir \cup {name}
        /\ saved' = Append(saved, name)

\* The characters of a notification: digits, a blank, the line feed.
Digits == {"1", "2"}
Whitespace == {" ", "\n"}
Newlines == {"\n"}

\* re.split(r"[\r\n]+", text): the pieces between runs of line ends, an
\* empty piece where the text starts or ends with one.
RECURSIVE re_split(_)
re_split(text) ==
    IF text = <<>> THEN << <<>> >>
    ELSE LET n == Len(text)
             front == re_split(SubSeq(text, 1, n - 1))
         IN  IF text[n] \in Newlines
             THEN IF n > 1 /\ text[n - 1] \in Newlines
                  THEN front
                  ELSE Append(front, <<>>)
             ELSE [front EXCEPT ![Len(front)] = Append(@, text[n])]

\* str.strip
RECURSIVE strip(_)
strip(text) ==
    IF text = <<>> THEN text
    ELSE IF text[1] \in Whitespace THEN strip(Tail(text))
    ELSE IF text[Len(text)] \in Whitespace THEN strip(SubSeq(text, 1, Len(text) - 1))
    ELSE text

\* float() of one digit
digit(c) == IF c = "1" THEN 1 ELSE 2

\* num_re.findall(ln), each match through float(): the maximal runs of
\* digits of the line, as numbers.
RECURSIVE findall(_)
findall(ln) ==
    IF ln = <<>> THEN <<>>
    ELSE LET n == Len(ln)
             front == findall(SubSeq(ln, 1, n - 1))
         IN  IF ln[n] \notin Digits THEN front
             ELSE IF n > 1 /\ ln[n - 1] \in Digits
                  THEN [front EXCEPT ![Len(front)] = 10 * @ + digit(ln[n])]
                  ELSE Append(front, digit(ln[n]))

\* num_re.fullmatch(chunk): the chunk is one number and nothing else.
fullmatch(chunk) == chunk # <<>> /\ \A i \in DOMAIN chunk : chunk[i] \in Digits

\* _handle_line as notify_handler sees it: a line with numbers adds one
\* entry (a sample per column), a line without numbers adds nothing.
handle_line(done, ln) ==
    IF findall(ln) = <<>> THEN done ELSE Append(done, findall(ln))

\* `for ln in parts[:-1]: ln = ln.strip(); if ln: self._handle_line(ln, hexstr)`
RECURSIVE handle_lines(_, _)
handle_lines(done, lns) ==
    IF lns = <<>> THEN done
    ELSE handle_lines(IF strip(lns[1]) # <<>> THEN handle_line(done, strip(lns[1]))
                      ELSE done,
                      Tail(lns))

\* Variant of the handler that keeps a number with no line end in the buffer.
notify_handler_linesOnly(buf, done, text) ==
    LET parts == re_split(buf \o text)
    IN  [line_buf |-> parts[Len(parts)],
         handled  |-> handle_lines(done, SubSeq(parts, 1, Len(parts) - 1))]

\* Collector.notify_handler for a non-empty text: the buffer and the lines
\* handled after it.
notify_handler(buf, done, text) ==
    LET parts == re_split(buf \o text)
        rest == parts[Len(parts)]
        lines_done == handle_lines(done, SubSeq(parts, 1, Len(parts) - 1))
        chunk == strip(rest)
    IN  IF chunk # <<>> /\ fullmatch(chunk)
        THEN [line_buf |-> <<>>, handled |-> handle_line(lines_done, chunk)]
        ELSE [line_buf |-> rest, handled |-> lines_done]

\* Nothing has been received.
NotifyGlobals ==
    /\ line_buf = <<>>
    /\ handled = <<>>
    /\ packets = <<>>
    /\ stream = <<>>

\* run has not been called: no loop, no stop event, the window is not shown.
QuitGlobals ==
    /\ bg = "start"
    /\ quit = "show"
    /\ stop_event = None
    /\ loop = FALSE
    /\ shutdown = <<>>

\* connect_auto has not been called.
ConnectGlobals ==
    /\ conn = "start"
    /\ client = None
    /\ found = FALSE
    /\ elapsed = 0
    /\ events = <<>>

\* Collector.__init__: not recording, no label, no rows; both threads idle.
RecorderGlobals ==
    /\ recording = FALSE
    /\ label_slug = None
    /\ rows = <<>>
    /\ ui = "idle"
    /\ ble = "idle"
    /\ lines_in = 0
    /\ session = <<>>
    /\ keys_in = <<>>
    /\ csv_files = <<>>

\* No collector is running.
CollectorGlobals ==
    /\ script = "myoware_collector"
    /\ data_dir = {}
    /\ saved = <<>>
    /\ RecorderGlobals
    /\ NotifyGlobals
    /\ ConnectGlobals
    /\ QuitGlobals

----------------------------------------------------------------------------
(* The state after the module globals are set *)

\* What an attempt used: the lengths of the two buffers when the marker was
\* recorded, and the two windows classified.
NoAttempt == [len1 |-> 0, len2 |-> 0, w1 |-> <<>>, w2 |-> <<>>]

PipelineGlobals ==
    /\ program \in Programs
    /\ last_step = 0
    /\ prediction_history = <<>>
    /\ last_pred = None
    /\ current_image_class = None
    /\ held = NoWindow
    /\ held_fresh = FALSE
    /\ loop_outcome = "none"
    /\ stages = <<>>
    /\ raw_log = <<>>
    /\ smoothed = None
    /\ replay_history = <<>>
    /\ replay_smoothed = None
    /\ labels_in = <<>>
    /\ dispatched = <<>>
    /\ arrivals = <<>>
    /\ last_data = None
    /\ malformed_seen = FALSE
    /\ handle_raised = FALSE
    /\ arm = NewArm
    /\ arm_sets = 0
    /\ prev_attempt = NoAttempt
    /\ feats = compute_features(<<0>>)
    /\ row = <<>>

Globals ==
    /\ PipelineGlobals
    /\ CollectorGlobals

\* The loop is entered: artifacts that fit the feature row are loaded and
\* both sensors are connected.
Init ==
    /\ Globals
    /\ task = "running"
    /\ scaler_features = LIVE_FEATURE_COUNT
    /\ connected = TRUE
    /\ win1 = <<>>
    /\ win2 = <<>>
    /\ M1 = <<>>
    /\ M2 = <<>>

Next ==
    \/ M1_notify
    \/ M2_notify
    \/ live_stream_mode
    \/ run_live

Spec == Init /\ [][Next]_vars

----------------------------------------------------------------------------
(* EMGStream on its own: one stream, arbitrary payloads, and a consumer   *)
(* that keeps the window it was given.                                    *)

Spikes(buffer) == Cardinality({i \in DOMAIN buffer : buffer[i] # 0})

stream_notify ==
    /\ Len(M1) < MaxBuffer
    /\ \E data \in Payloads :
           /\ data \in {"1", "-1"} => Spikes(M1) < MaxSpikes
           /\ M1' = handle(M1, data)
           /\ arrivals' = IF data \in Numeric
                          THEN Append(arrivals, float(data))
                          ELSE arrivals
           /\ last_data' = data
           /\ malformed_seen' = (malformed_seen \/ data \notin Numeric)
           /\ handle_raised' = (handle_raised \/ handle_raises(data))
    /\ held_fresh' = (held_fresh /\ M1' = M1)
    /\ UNCHANGED <<collectorVars, program, arm_sets, prev_attempt, startupVars, featureVars,
                   M2, smootherVars, dispatchVars, held, loopVars>>

consumer_get_window ==
    /\ held' = get_window(M1)
    /\ held_fresh' = TRUE
    /\ UNCHANGED <<collectorVars, program, arm_sets, prev_attempt, ingestVars, startupVars, featureVars,
                   streamVars, smootherVars, dispatchVars, loopVars>>

BufferNext ==
    \/ stream_notify
    \/ consumer_get_window

\* EMGStream is the same class in both scripts.
BufferInit == Init /\ program = "pipeline"

BufferSpec == BufferInit /\ [][BufferNext]_vars

----------------------------------------------------------------------------
(* The smoother on its own: classify called once per raw prediction.      *)

classify_call ==
    /\ program = "live"
    /\ Len(raw_log) < MaxClassify
    /\ \E pred \in Labels : classify(pred)
    /\ UNCHANGED <<collectorVars, program, arm_sets, prev_attempt, ingestVars, startupVars, featureVars,
                   streamVars, dispatchVars, consumerVars,
                   last_step, loop_outcome, stages, task>>

SmootherNext == classify_call

\* Only myowareLIVECLASSIFYING.py has a smoother.
SmootherInit == Init /\ program = "live"

SmootherSpec == SmootherInit /\ [][SmootherNext]_vars

----------------------------------------------------------------------------
(* The dispatcher on its own: called once per label.                      *)

arm_dispatch ==
    /\ program = "pipeline"
    /\ Len(labels_in) < MaxDispatch
    /\ \E label \in Labels : apply_prediction_to_arm(label)
    /\ UNCHANGED <<collectorVars, program, arm_sets, prev_attempt, ingestVars, startupVars, featureVars,
                   streamVars, smootherVars, consumerVars, loopVars>>

image_dispatch ==
    /\ program = "live"
    /\ Len(labels_in) < MaxDispatch
    /\ \E label \in Labels, exists \in BOOLEAN : show_prediction_image(label, exists)
    /\ UNCHANGED <<collectorVars, program, arm_sets, prev_attempt, ingestVars, startupVars, featureVars,
                   streamVars, smootherVars, consumerVars, loopVars>>

DispatcherNext ==
    \/ arm_dispatch
    \/ image_dispatch

DispatcherSpec == Init /\ [][DispatcherNext]_vars

----------------------------------------------------------------------------
(* Start-up and shutdown of the live mode: load the artifacts, connect the *)
(* sensors, run the loop until a stop signal or an error ends it.          *)

\* The feature counts the artifacts on disk can have been fit on: the 16 of
\* window_to_vector, or those of a training run with one more feature per
\* channel.
ArtifactFeatures == {LIVE_FEATURE_COUNT, LIVE_FEATURE_COUNT + 2}

\* Variant of the loader that swallows a failed joblib.load.
load_result_ignore(ok) == "loaded"

\* joblib.load either returns or raises; nothing catches the exception, so
\* the script ends with it.
load_result(ok) == IF ok THEN "loaded" ELSE "load_failed"

\* pipeline.py load_ml() / the module-level joblib.load calls of
\* myowareLIVECLASSIFYING.py.  scaler_features = 0: nothing was loaded.
load_ml ==
    /\ task = "start"
    /\ \E ok \in BOOLEAN, n \in ArtifactFeatures :
           /\ scaler_features' = IF ok THEN n ELSE 0
           /\ task' = load_result(ok)
    /\ UNCHANGED <<collectorVars, program, arm_sets, prev_attempt, ingestVars, connected, featureVars, streamVars,
                   smootherVars, dispatchVars, consumerVars,
                   last_step, loop_outcome, stages, raw_log>>

\* `async with BleakClient(...)`, the two start_notify calls, last_step = 0.
connect ==
    /\ task = "loaded"
    /\ \E ok \in BOOLEAN :
           /\ connected' = ok
           /\ task' = IF ok THEN "running" ELSE "connect_failed"
    /\ last_step' = 0
    /\ UNCHANGED <<collectorVars, program, arm_sets, prev_attempt, ingestVars, scaler_features, featureVars, streamVars,
                   smootherVars, dispatchVars, consumerVars,
                   loop_outcome, stages, raw_log>>

\* Notifications arrive only on an open connection.
startup_M1_notify ==
    /\ connected
    /\ task = "running"
    /\ Len(M1) < MaxStartupSamples
    /\ M1_notify

startup_M2_notify ==
    /\ connected
    /\ task = "running"
    /\ Len(M2) < MaxStartupSamples
    /\ M2_notify

\* The task is cancelled: CancelledError is raised at the only await of the
\* loop, `await asyncio.sleep(0.01)`, between two passes.
cancel_at_sleep ==
    /\ task = "running"
    /\ task' = "cancelled"
    /\ UNCHANGED <<collectorVars, program, arm_sets, prev_attempt, ingestVars, startupVars, featureVars, streamVars,
                   smootherVars, dispatchVars, consumerVars,
                   last_step, loop_outcome, stages, raw_log>>

\* A pass of the loop is about to run a classification step.
step_due ==
    /\ truthy(get_window(M1), M1)
    /\ truthy(get_window(M2), M2)
    /\ throttle_met(Len(M1), last_step)

\* Ctrl-C where SIGINT raises KeyboardInterrupt in the main thread: the
\* exception lands between two bytecodes of whatever runs, the step included.
\* Cuts of pipeline.py: in the sleep; after `last_step = len(M1.buffer)`;
\* after `last_pred = pred` and before the arm call.
keyboard_interrupt_live_stream_mode ==
    /\ program = "pipeline"
    /\ task = "running"
    /\ task' = "interrupted"
    /\ \E cut \in {"sleep", "marker", "state"} :
         CASE cut = "sleep" ->
                UNCHANGED <<last_step, loop_outcome, stages, raw_log, dispatchVars>>
           [] cut = "marker" ->
                /\ step_due
                /\ last_step' = Len(M1)
                /\ stages' = CallsUpTo(live_stream_mode_calls, "window")
                /\ loop_outcome' = "interrupted"
                /\ UNCHANGED <<raw_log, dispatchVars>>
           [] cut = "state" ->
                /\ step_due
                /\ ~transform_raises(scaler_features)
                /\ last_step' = Len(M1)
                /\ \E pred \in Labels :
                       /\ ~is_repeat(pred, last_pred)
                       /\ raw_log' = Append(raw_log, pred)
                       /\ labels_in' = Append(labels_in, pred)
                       /\ last_pred' = pred
                /\ stages' = live_stream_mode_calls
                /\ loop_outcome' = "interrupted"
                /\ UNCHANGED <<dispatched, current_image_class, arm>>
    /\ UNCHANGED <<collectorVars, program, arm_sets, prev_attempt, ingestVars, startupVars, featureVars,
                   streamVars, smootherVars, consumerVars>>

\* Cuts of myowareLIVECLASSIFYING.py: in the sleep; after the marker; after
\* prediction_history.append and before the pop; after
\* `current_image_class = pred_class` and before the image is shown.
keyboard_interrupt_run_live ==
    /\ program = "live"
    /\ task = "running"
    /\ task' = "interrupted"
    /\ \E cut \in {"sleep", "marker", "appended", "state"} :
         CASE cut = "sleep" ->
                UNCHANGED <<last_step, loop_outcome, stages, raw_log,
                            dispatchVars, smootherVars>>
           [] cut = "marker" ->
                /\ step_due
                /\ last_step' = Len(M1)
                /\ stages' = CallsUpTo(run_live_calls, "window")
                /\ loop_outcome' = "interrupted"
                /\ UNCHANGED <<raw_log, dispatchVars, smootherVars>>
           [] cut = "appended" ->
                /\ step_due
                /\ ~transform_raises(scaler_features)
                /\ last_step' = Len(M1)
                /\ \E pred \in Labels :
                       /\ raw_log' = Append(raw_log, pred)
                       /\ prediction_history' = Append(prediction_history, pred)
                       /\ replay_history' = Append(replay_history, pred)
                /\ stages' = CallsUpTo(run_live_calls, "classify")
                /\ loop_outcome' = "interrupted"
                /\ UNCHANGED <<smoothed, replay_smoothed, dispatchVars>>
           [] cut = "state" ->
                /\ step_due
                /\ ~transform_raises(scaler_features)
                /\ last_step' = Len(M1)
                /\ \E pred \in Labels : classify(pred)
                /\ ~is_repeat(smoothed', current_image_class)
                /\ labels_in' = Append(labels_in, smoothed')
                /\ current_image_class' = smoothed'
                /\ stages' = run_live_calls
                /\ loop_outcome' = "interrupted"
                /\ UNCHANGED <<dispatched, last_pred, arm>>
    /\ UNCHANGED <<collectorVars, program, arm_sets, prev_attempt, ingestVars, startupVars, featureVars,
                   streamVars, consumerVars>>

\* The script was started; nothing is loaded or connected yet.
LifecycleInit ==
    /\ Globals
    /\ task = "start"
    /\ scaler_features = 0
    /\ connected = FALSE
    /\ win1 = <<>>
    /\ win2 = <<>>
    /\ M1 = <<>>
    /\ M2 = <<>>

LifecycleNext ==
    \/ load_ml
    \/ connect
    \/ startup_M1_notify
    \/ startup_M2_notify
    \/ live_stream_mode
    \/ run_live
    \/ cancel_at_sleep
    \/ keyboard_interrupt_live_stream_mode
    \/ keyboard_interrupt_run_live

LifecycleSpec == LifecycleInit /\ [][LifecycleNext]_vars

----------------------------------------------------------------------------
(* The feature extractor on its own: window_to_vector called on two        *)
(* windows.                                                                *)

\* Sample values of the small windows.
Samples == {float(text) : text \in Numeric}

\* The rising window 1..5.
Ramp == <<1, 2, 3, 4, 5>>

\* Flat windows away from the baseline.
FlatWindows == {[i \in 1..n |-> c] : n \in 2..MaxWindowLen, c \in {-2, 2}}

\* The windows handed to the extractor: every short window over Samples,
\* the flat windows and the ramp.
Windows ==
    UNION {[1..n -> Samples] : n \in 1..MaxWindowLen} \cup FlatWindows \cup {Ramp}

\* np.max raises ValueError on an empty array; no other call of
\* compute_features raises on a list of numbers.
compute_features_raises(signal) == Len(signal) = 0

\* x = window_to_vector(w1, w2), and the dict compute_features gave for w1.
window_to_vector_call ==
    /\ ~compute_features_raises(win1)
    /\ ~compute_features_raises(win2)
    /\ feats' = compute_features(win1)
    /\ row' = window_to_vector(win1, win2)
    /\ UNCHANGED <<collectorVars, program, arm_sets, prev_attempt, ingestVars, startupVars, streamVars, smootherVars,
                   dispatchVars, consumerVars, loopVars, win1, win2>>

FeatureNext == window_to_vector_call

\* The two windows are the inputs; nothing was extracted yet.
FeatureInit ==
    /\ Globals
    /\ task = "running"
    /\ scaler_features = LIVE_FEATURE_COUNT
    /\ connected = TRUE
    /\ win1 \in Windows
    /\ win2 \in Windows
    /\ M1 = <<>>
    /\ M2 = <<>>

FeatureSpec == FeatureInit /\ [][FeatureNext]_vars

----------------------------------------------------------------------------
(* The arm on its own: the menu and direct set_servo_pos calls.            *)

\* menu_mode: the if / elif chain on `choice`; 19 quits.
menu_choice(choice, a) ==
    CASE choice = 1  -> reset_lats(a)
      [] choice = 2  -> spock(a)
      [] choice = 3  -> reset(a)
      [] choice = 4  -> close_thumb(a)
      [] choice = 5  -> open_thumb(a)
      [] choice = 6  -> close_pointer_finger(a)
      [] choice = 7  -> open_pointer_finger(a)
      [] choice = 8  -> close_middle_finger(a)
      [] choice = 9  -> open_middle_finger(a)
      [] choice = 10 -> close_ring_finger(a)
      [] choice = 11 -> open_ring_finger(a)
      [] choice = 12 -> close_pinkie_finger(a)
      [] choice = 13 -> open_pinkie_finger(a)
      [] choice = 14 -> close_fist(a)
      [] choice = 15 -> left_right_wave(a)
      [] choice = 16 -> top_down_wave(a)
      [] choice = 17 -> the_bird(a)
      [] choice = 18 -> peace(a)
      [] OTHER       -> a

MenuChoices == 1..18

\* One pass of the menu loop with a choice that runs an Arm method.
menu_mode ==
    /\ \E choice \in MenuChoices : arm' = menu_choice(choice, arm)
    /\ UNCHANGED <<collectorVars, program, arm_sets, prev_attempt, ingestVars, startupVars, featureVars,
                   streamVars, smootherVars, consumerVars, loopVars,
                   last_pred, current_image_class, labels_in, dispatched>>

\* The targets tried on a servo: its two bounds and the angle beyond each.
Targets(servo_id) ==
    {start_deg(servo_id) - 1, start_deg(servo_id),
     end_deg(servo_id), end_deg(servo_id) + 1}

\* arm.set_servo_pos(servo_id, new_pos) called directly.
set_servo_pos_call ==
    /\ arm_sets < MaxArmSets
    /\ arm_sets' = arm_sets + 1
    /\ \E servo_id \in ServoIds :
           \E new_pos \in Targets(servo_id) :
               arm' = set_servo_pos(arm, servo_id, new_pos)
    /\ UNCHANGED <<collectorVars, program, prev_attempt, ingestVars, startupVars, featureVars,
                   streamVars, smootherVars, consumerVars, loopVars,
                   last_pred, current_image_class, labels_in, dispatched>>

ArmNext ==
    \/ menu_mode
    \/ set_servo_pos_call

\* The Arm is the one of pipeline.py.
ArmInit == Init /\ program = "pipeline"

ArmSpec == ArmInit /\ [][ArmNext]_vars

----------------------------------------------------------------------------
(* One pass of live_stream_mode statement by statement, to see what a      *)
(* notification can get in between.  task is where the coroutine stands:   *)
(* "running" in `await asyncio.sleep`, "got_w1" after line 400, "got_w2"   *)
(* after line 401.                                                         *)

\* Variant in which notifications are delivered on a thread of their own.
can_notify_anytime(position) == TRUE

\* bleak runs the notification callback on the event loop, so handle runs
\* only while the coroutine is suspended in its await.
can_notify(position) == position = "running"

snapshot_M1_notify ==
    /\ can_notify(task)
    /\ Len(M1) < MaxSnapshotSamples
    /\ M1_notify

snapshot_M2_notify ==
    /\ can_notify(task)
    /\ Len(M2) < MaxSnapshotSamples
    /\ M2_notify

\* w1 = M1.get_window()
read_w1 ==
    /\ task = "running"
    /\ win1' = Contents(get_window(M1), M1)
    /\ task' = "got_w1"
    /\ UNCHANGED <<collectorVars, program, arm_sets, prev_attempt, ingestVars, startupVars, streamVars,
                   smootherVars, dispatchVars, consumerVars,
                   last_step, loop_outcome, stages, raw_log, win2, feats, row>>

\* w2 = M2.get_window()
read_w2 ==
    /\ task = "got_w1"
    /\ win2' = Contents(get_window(M2), M2)
    /\ task' = "got_w2"
    /\ UNCHANGED <<collectorVars, program, arm_sets, prev_attempt, ingestVars, startupVars, streamVars,
                   smootherVars, dispatchVars, consumerVars,
                   last_step, loop_outcome, stages, raw_log, win1, feats, row>>

\* The rest of the pass, from `if w1 and w2` to the sleep: the windows it
\* classifies are the ones read before.
classify_windows ==
    /\ program = "pipeline"
    /\ task = "got_w2"
    /\ task' = "running"
    /\ IF win1 # <<>> /\ win2 # <<>> /\ throttle_met(Len(M1), last_step)
       THEN /\ ~transform_raises(scaler_features)
            /\ last_step' = Len(M1)
            /\ prev_attempt' = [len1 |-> Len(M1), len2 |-> Len(M2),
                                w1 |-> win1, w2 |-> win2]
            /\ row' = window_to_vector(win1, win2)
            /\ feats' = compute_features(win1)
            /\ \E pred \in Labels :
                   /\ raw_log' = Append(raw_log, pred)
                   /\ apply_prediction_to_arm(pred)
            /\ stages' = live_stream_mode_calls
            /\ loop_outcome' = "classified"
       ELSE /\ loop_outcome' = IF win1 # <<>> /\ win2 # <<>>
                               THEN "throttled" ELSE "not_ready"
            /\ UNCHANGED <<last_step, row, feats, raw_log, stages, dispatchVars,
                           prev_attempt>>
    /\ UNCHANGED <<collectorVars, program, arm_sets, ingestVars, startupVars, streamVars,
                   smootherVars, consumerVars, win1, win2>>

SnapshotNext ==
    \/ snapshot_M1_notify
    \/ snapshot_M2_notify
    \/ read_w1
    \/ read_w2
    \/ classify_windows

SnapshotInit == Init /\ program = "pipeline"

SnapshotSpec == SnapshotInit /\ [][SnapshotNext]_vars

----------------------------------------------------------------------------
(* The live loop under fair scheduling: the event loop resumes the         *)
(* coroutine after every sleep, and the sensors keep delivering (up to the *)
(* bound of the model).                                                    *)

live_M1_notify ==
    /\ Len(M1) < MaxLiveSamples
    /\ M1_notify

live_M2_notify ==
    /\ Len(M2) < MaxLiveSamples
    /\ M2_notify

LiveNext ==
    \/ live_M1_notify
    \/ live_M2_notify
    \/ live_stream_mode
    \/ run_live

\* What a buffer holds after n well-formed readings of its sensor.
Received(n) == [i \in 1..n |-> float(SensorReading(i - 1))]

\* The loop is running and each buffer is one sample short of its first
\* window; no pass has classified yet.
LiveInit ==
    /\ Globals
    /\ task = "running"
    /\ scaler_features = LIVE_FEATURE_COUNT
    /\ connected = TRUE
    /\ win1 = <<>>
    /\ win2 = <<>>
    /\ M1 = Received(WINDOW_SIZE - 1)
    /\ M2 = Received(WINDOW_SIZE - 1)

LiveSpec ==
    /\ LiveInit
    /\ [][LiveNext]_vars
    /\ WF_vars(live_stream_mode)
    /\ WF_vars(run_live)
    /\ WF_vars(live_M1_notify)
    /\ WF_vars(live_M2_notify)

----------------------------------------------------------------------------
(* Saving on its own: the directory holds any files when the collector     *)
(* starts, and sessions are saved one after the other.                     *)

\* The pipeline scripts are not running.
PipelineAtRest ==
    /\ PipelineGlobals
    /\ program = "pipeline"
    /\ task = "running"
    /\ scaler_features = LIVE_FEATURE_COUNT
    /\ connected = TRUE
    /\ win1 = <<>>
    /\ win2 = <<>>
    /\ M1 = <<>>
    /\ M2 = <<>>

\* Files that may lie in DATA_DIR before the first save: recordings of
\* earlier runs (some deleted since, so numbers can be missing), a name with
\* a leading zero, one in capitals, a snapshot, another label.
OldFiles ==
    { FileName("flat_hand", <<1>>, "csv"), FileName("flat_hand", <<2>>, "csv"),
      FileName("flat_hand", <<0, 3>>, "csv"), FileName("FLAT_HAND", <<4>>, "csv"),
      FileName("flat_hand", <<9>>, "png"), FileName("closing_fist", <<1>>, "csv"),
      FileName("flat_hand", <<9>>, "csv") }

save_session ==
    /\ Len(saved) < MaxSaves
    /\ \E slug \in Slugs : write_csv(slug)
    /\ UNCHANGED <<pipelineVars, script, recordVars, notifyVars, connectVars, quitVars>>

FilesNext == save_session

FilesInit ==
    /\ PipelineAtRest
    /\ script \in Scripts
    /\ data_dir \in SUBSET OldFiles
    /\ saved = <<>>
    /\ RecorderGlobals
    /\ NotifyGlobals
    /\ ConnectGlobals
    /\ QuitGlobals

FilesSpec == FilesInit /\ [][FilesNext]_vars

----------------------------------------------------------------------------
(* Recording sessions in myoware_collector.py.  on_key runs on the UI      *)
(* thread (matplotlib), _handle_line on the BLE thread started by run.     *)
(* self.lock guards cols and rows; self.recording and self.label_slug are  *)
(* written by on_key outside the lock.  ui is where on_key stands:         *)
(* "idle", "starting" (rows cleared, line 378, flag not yet set) or        *)
(* "saving" (flag cleared, line 384, save_csv_and_png not yet in the       *)
(* lock); ble is "appending" while _handle_line holds the lock between     *)
(* its test (line 190) and rows.append.                                    *)

\* Variant of the test that lets a recording start with no label.
label_chosen_always(slug) == TRUE

\* `if not self.label_slug` (line 373), negated
label_chosen(slug) == slug # None

\* on_key, `if k in LABELS`
on_key_label ==
    /\ ui = "idle"
    /\ Len(keys_in) < MaxKeys
    /\ \E slug \in Slugs :
           /\ label_slug' = slug
           /\ keys_in' = Append(keys_in, slug)
    /\ UNCHANGED <<pipelineVars, script, fileVars, notifyVars, connectVars, quitVars,
                   recording, rows, ui, ble, lines_in, session, csv_files>>

\* on_key, SPACE while not recording and no label chosen: the message.
on_key_space_no_label ==
    /\ ui = "idle"
    /\ Len(keys_in) < MaxKeys
    /\ ~recording
    /\ ~label_chosen(label_slug)
    /\ keys_in' = Append(keys_in, " ")
    /\ UNCHANGED <<pipelineVars, script, fileVars, notifyVars, connectVars, quitVars,
                   recording, label_slug, rows, ui, ble, lines_in, session, csv_files>>

\* Variant of the start that keeps the rows of the session before.
on_key_space_start_keep ==
    /\ ui = "idle"
    /\ Len(keys_in) < MaxKeys
    /\ ~recording
    /\ label_chosen(label_slug)
    /\ ble = "idle"
    /\ ui' = "starting"
    /\ keys_in' = Append(keys_in, " ")
    /\ UNCHANGED <<pipelineVars, script, fileVars, notifyVars, connectVars, quitVars,
                   recording, label_slug, rows, ble, lines_in, session, csv_files>>

\* on_key, SPACE while not recording: _reset_session_view() and
\* `with self.lock: self.rows.clear()`.
on_key_space_start ==
    /\ ui = "idle"
    /\ Len(keys_in) < MaxKeys
    /\ ~recording
    /\ label_chosen(label_slug)
    /\ ble = "idle"
    /\ rows' = <<>>
    /\ ui' = "starting"
    /\ keys_in' = Append(keys_in, " ")
    /\ UNCHANGED <<pipelineVars, script, fileVars, notifyVars, connectVars, quitVars,
                   recording, label_slug, ble, lines_in, session, csv_files>>

\* `self.recording = True`
on_key_space_recording ==
    /\ ui = "starting"
    /\ recording' = TRUE
    /\ session' = <<>>
    /\ ui' = "idle"
    /\ UNCHANGED <<pipelineVars, script, fileVars, notifyVars, connectVars, quitVars,
                   label_slug, rows, ble, lines_in, keys_in, csv_files>>

\* on_key, SPACE while recording: `self.recording = False`
on_key_space_stop ==
    /\ ui = "idle"
    /\ Len(keys_in) < MaxKeys
    /\ recording
    /\ recording' = FALSE
    /\ ui' = "saving"
    /\ keys_in' = Append(keys_in, " ")
    /\ UNCHANGED <<pipelineVars, script, fileVars, notifyVars, connectVars, quitVars,
                   label_slug, rows, ble, lines_in, session, csv_files>>

\* save_csv_and_png: the snapshot under the lock, then the file.
save_csv_and_png ==
    /\ ui = "saving"
    /\ ble = "idle"
    /\ ui' = "idle"
    /\ IF rows = <<>>
       THEN UNCHANGED <<fileVars, csv_files>>
       ELSE /\ write_csv(label_slug)
            /\ csv_files' = Append(csv_files,
                                   [name |-> chosen_filename(data_dir, label_slug),
                                    rows |-> rows, session |-> session])
    /\ UNCHANGED <<pipelineVars, script, notifyVars, connectVars, quitVars,
                   recording, label_slug, rows, ble, lines_in, session, keys_in>>

\* _handle_line up to the test of line 190: the lock is taken, the columns
\* grow, and the row is decided on.
handle_line_test ==
    /\ ble = "idle"
    /\ lines_in < MaxLines
    /\ lines_in' = lines_in + 1
    /\ session' = IF recording THEN Append(session, lines_in + 1) ELSE session
    /\ ble' = IF recording /\ label_chosen(label_slug) THEN "appending" ELSE "idle"
    /\ UNCHANGED <<pipelineVars, script, fileVars, notifyVars, connectVars, quitVars,
                   recording, label_slug, rows, ui, keys_in, csv_files>>

\* `self.rows.append({... "label": self.label_slug ...})` and the release
\* of the lock.
handle_line_append ==
    /\ ble = "appending"
    /\ rows' = Append(rows, [label |-> label_slug, value |-> lines_in])
    /\ ble' = "idle"
    /\ UNCHANGED <<pipelineVars, script, fileVars, notifyVars, connectVars, quitVars,
                   recording, label_slug, ui, lines_in, session, keys_in, csv_files>>

RecordNext ==
    \/ on_key_label
    \/ on_key_space_no_label
    \/ on_key_space_start
    \/ on_key_space_recording
    \/ on_key_space_stop
    \/ save_csv_and_png
    \/ handle_line_test
    \/ handle_line_append

RecordInit ==
    /\ PipelineAtRest
    /\ CollectorGlobals

RecordSpec == RecordInit /\ [][RecordNext]_vars

----------------------------------------------------------------------------
(* The notify handler on its own: a stream of numeric lines reaches it cut *)
(* into notifications at any places.                                       *)

\* The lines a sensor sends: one number, or two separated by a blank.
SensorLines ==
    { <<"1", "\n">>, <<"1", "2", "\n">>, <<"2", " ", "1", "\n">> }

\* Streams of one or two lines.
Streams == SensorLines \cup {a \o b : a \in SensorLines, b \in SensorLines}

\* The notifications of a stream cut after the positions in cuts.
RECURSIVE Cut(_, _, _)
Cut(text, cuts, from) ==
    IF from > Len(text) THEN <<>>
    ELSE LET ends == {c \in cuts : c >= from} \cup {Len(text)}
             to == CHOOSE c \in ends : \A d \in ends : c <= d
         IN  <<SubSeq(text, from, to)>> \o Cut(text, cuts, to + 1)

notify ==
    /\ packets # <<>>
    /\ LET after == notify_handler(line_buf, handled, Head(packets))
       IN  /\ line_buf' = after.line_buf
           /\ handled' = after.handled
    /\ packets' = Tail(packets)
    /\ UNCHANGED <<pipelineVars, script, fileVars, recordVars, connectVars, quitVars, stream>>

NotifyNext == notify

NotifyInit ==
    /\ PipelineAtRest
    /\ script = "myoware_collector"
    /\ data_dir = {}
    /\ saved = <<>>
    /\ RecorderGlobals
    /\ ConnectGlobals
    /\ QuitGlobals
    /\ line_buf = <<>>
    /\ handled = <<>>
    /\ stream \in Streams
    /\ \E cuts \in SUBSET (1..(MaxStreamLen - 1)) :
           packets = Cut(stream, {c \in cuts : c < Len(stream)}, 1)

NotifySpec == NotifyInit /\ [][NotifyNext]_vars

----------------------------------------------------------------------------
(* Collector.connect_auto step by step.  What the radio does is the        *)
(* environment's choice: client.connect() connects, returns without a      *)
(* connection, or raises; BleakScanner.discover finds the device, finds    *)
(* others only, or raises.  conn is where the coroutine stands: "start",   *)
(* "scanning", "scanned" (the loop is left with a device), "returned",     *)
(* "raised".                                                               *)

\* `while time.time() - t0 < 10.0` and discover(timeout=2.0), in seconds.
SCAN_SECONDS == 10
DISCOVER_TIMEOUT == 2

ConnectOutcomes == {"connected", "not_connected", "raised"}
ScanOutcomes == {"match", "no_match", "hiccup"}

\* Variant of the loop condition that scans until the device is found.
scan_due_untilFound(seconds, matched) == ~matched

\* `while time.time() - t0 < 10.0 and not found`
scan_due(seconds, matched) == seconds < SCAN_SECONDS /\ ~matched

\* 1) Direct connect (lines 236-247)
direct_connect ==
    /\ conn = "start"
    /\ \E outcome \in ConnectOutcomes :
           /\ events' = Append(events, <<"direct", outcome>>)
           /\ IF outcome = "connected"
              THEN client' = "preferred" /\ conn' = "returned"
              ELSE client' = client /\ conn' = "scanning"
    /\ UNCHANGED <<pipelineVars, script, fileVars, recordVars, notifyVars, quitVars, found, elapsed>>

\* One pass of the scan loop (lines 253-264): discover takes its timeout, a
\* scan that raises ends sooner.
scan_round ==
    /\ conn = "scanning"
    /\ scan_due(elapsed, found)
    /\ elapsed < MaxScanSeconds
    /\ \E outcome \in ScanOutcomes :
           /\ events' = Append(events, <<"scan", outcome>>)
           /\ found' = (outcome = "match")
           /\ elapsed' = elapsed + (IF outcome = "hiccup" THEN DISCOVER_TIMEOUT - 1
                                    ELSE DISCOVER_TIMEOUT)
    /\ UNCHANGED <<pipelineVars, script, fileVars, recordVars, notifyVars, quitVars, conn, client>>

\* The loop is left: `if not found: raise RuntimeError` (266-267)
scan_over ==
    /\ conn = "scanning"
    /\ ~scan_due(elapsed, found)
    /\ conn' = IF found THEN "scanned" ELSE "raised"
    /\ events' = Append(events, <<"scan", IF found THEN "over" ELSE "raised">>)
    /\ UNCHANGED <<pipelineVars, script, fileVars, recordVars, notifyVars, quitVars,
                   client, found, elapsed>>

\* Connect to the scanned device (269-277)
scanned_connect ==
    /\ conn = "scanned"
    /\ \E outcome \in ConnectOutcomes :
           /\ events' = Append(events, <<"scanned", outcome>>)
           /\ IF outcome = "connected"
              THEN client' = "scanned" /\ conn' = "returned"
              ELSE client' = client /\ conn' = "raised"
    /\ UNCHANGED <<pipelineVars, script, fileVars, recordVars, notifyVars, quitVars, found, elapsed>>

ConnectNext ==
    \/ direct_connect
    \/ scan_round
    \/ scan_over
    \/ scanned_connect

ConnectInit ==
    /\ PipelineAtRest
    /\ CollectorGlobals

ConnectSpec == ConnectInit /\ [][ConnectNext]_vars

----------------------------------------------------------------------------
(* Quitting.  run starts the BLE thread (a daemon thread running           *)
(* async_task on its own loop) and shows the window on the UI thread.  bg  *)
(* is where the BLE thread stands: "start", "connect", "subscribe",        *)
(* "event", "wait", "stop_notify", "disconnect", "done", or "failed" when  *)
(* an exception ended async_task.  quit is where the UI thread stands:     *)
(* "show" (plt.show), "closed" (plt.show has returned), "joining", and     *)
(* "exited" when run has returned and the process ends, which ends the     *)
(* daemon thread wherever it stands.                                       *)

BleOutcomes == {"ok", "raised"}

\* The BLE calls stand for a running process only.
ble_thread_runs == quit # "exited"

\* bg / thread_fn: self.loop = asyncio.new_event_loop()
bg_loop ==
    /\ ble_thread_runs
    /\ bg = "start"
    /\ loop' = TRUE
    /\ bg' = "connect"
    /\ UNCHANGED <<pipelineVars, script, fileVars, recordVars, notifyVars, connectVars,
                   quit, stop_event, shutdown>>

\* async_task: await self.connect_auto(), a step of it
bg_connect_auto ==
    /\ ble_thread_runs
    /\ bg = "connect"
    /\ script = "myoware_collector"
    /\ ConnectNext

\* async_task: connect_auto has returned, self.client is connected
bg_connected ==
    /\ ble_thread_runs
    /\ bg = "connect"
    /\ conn = "returned"
    /\ bg' = "subscribe"
    /\ UNCHANGED <<pipelineVars, script, fileVars, recordVars, notifyVars, connectVars,
                   quit, stop_event, loop, shutdown>>

\* async_task: connect_auto has raised, which ends async_task
bg_connect_raised ==
    /\ ble_thread_runs
    /\ bg = "connect"
    /\ conn = "raised"
    /\ bg' = "failed"
    /\ UNCHANGED <<pipelineVars, script, fileVars, recordVars, notifyVars, connectVars,
                   quit, stop_event, loop, shutdown>>

\* myoware_collector3, async_task: connect_sensor connects, subscribes and
\* then stores the client, or raises.
bg_connect_sensor ==
    /\ ble_thread_runs
    /\ bg = "connect"
    /\ script = "myoware_collector3"
    /\ \E outcome \in BleOutcomes :
           IF outcome = "ok"
           THEN client' = "preferred" /\ bg' = "event"
           ELSE client' = client /\ bg' = "failed"
    /\ UNCHANGED <<pipelineVars, script, fileVars, recordVars, notifyVars,
                   conn, found, elapsed, events, quit, stop_event, loop, shutdown>>

\* async_task: pick_notify_char_auto and start_notify
bg_start_notify ==
    /\ ble_thread_runs
    /\ bg = "subscribe"
    /\ \E outcome \in BleOutcomes :
           bg' = IF outcome = "ok" THEN "event" ELSE "failed"
    /\ UNCHANGED <<pipelineVars, script, fileVars, recordVars, notifyVars, connectVars,
                   quit, stop_event, loop, shutdown>>

\* async_task: self.stop_event = asyncio.Event()
bg_stop_event ==
    /\ ble_thread_runs
    /\ bg = "event"
    /\ stop_event' = "clear"
    /\ bg' = "wait"
    /\ UNCHANGED <<pipelineVars, script, fileVars, recordVars, notifyVars, connectVars,
                   quit, loop, shutdown>>

\* async_task: await self.stop_event.wait() returns once the event is set
bg_wait ==
    /\ ble_thread_runs
    /\ bg = "wait"
    /\ stop_event = "set"
    /\ bg' = "stop_notify"
    /\ UNCHANGED <<pipelineVars, script, fileVars, recordVars, notifyVars, connectVars,
                   quit, stop_event, loop, shutdown>>

\* async_task: stop_notify in a try of its own; in myoware_collector3 the
\* try holds stop_notify and disconnect together.
bg_stop_notify ==
    /\ ble_thread_runs
    /\ bg = "stop_notify"
    /\ \E outcome \in BleOutcomes :
           /\ shutdown' = Append(shutdown, <<"stop_notify", outcome>>)
           /\ bg' = IF outcome = "raised" /\ script = "myoware_collector3"
                    THEN "done" ELSE "disconnect"
    /\ UNCHANGED <<pipelineVars, script, fileVars, recordVars, notifyVars, connectVars,
                   quit, stop_event, loop>>

\* async_task: disconnect, whatever it raises is swallowed
bg_disconnect ==
    /\ ble_thread_runs
    /\ bg = "disconnect"
    /\ \E outcome \in BleOutcomes :
           shutdown' = Append(shutdown, <<"disconnect", outcome>>)
    /\ bg' = "done"
    /\ UNCHANGED <<pipelineVars, script, fileVars, recordVars, notifyVars, connectVars,
                   quit, stop_event, loop>>

\* `if self.loop and self.stop_event: self.loop.call_soon_threadsafe(self.stop_event.set)`
signal_stop == IF loop /\ stop_event # None THEN "set" ELSE stop_event

\* on_key, k == "q": signal the BLE thread if there is an event, plt.close()
on_key_q ==
    /\ quit = "show"
    /\ stop_event' = signal_stop
    /\ quit' = "closed"
    /\ UNCHANGED <<pipelineVars, script, fileVars, recordVars, notifyVars, connectVars,
                   bg, loop, shutdown>>

\* The window is closed by hand: plt.show() returns, on_key did not run.
close_window ==
    /\ quit = "show"
    /\ quit' = "closed"
    /\ UNCHANGED <<pipelineVars, script, fileVars, recordVars, notifyVars, connectVars,
                   bg, stop_event, loop, shutdown>>

\* run, after plt.show(): the same signal once more
run_finally ==
    /\ quit = "closed"
    /\ stop_event' = signal_stop
    /\ quit' = "joining"
    /\ UNCHANGED <<pipelineVars, script, fileVars, recordVars, notifyVars, connectVars,
                   bg, loop, shutdown>>

\* run: t.join(timeout=2.0) returns because the BLE thread has ended
join_returns ==
    /\ quit = "joining"
    /\ script = "myoware_collector"
    /\ bg \in {"done", "failed"}
    /\ quit' = "exited"
    /\ UNCHANGED <<pipelineVars, script, fileVars, recordVars, notifyVars, connectVars,
                   bg, stop_event, loop, shutdown>>

\* run: t.join(timeout=2.0) gives up.  A BLE thread that was signalled is
\* taken to finish within the two seconds, so the join gives up only on a
\* thread that was not.
join_timeout ==
    /\ quit = "joining"
    /\ script = "myoware_collector"
    /\ bg \notin {"done", "failed"}
    /\ stop_event # "set"
    /\ quit' = "exited"
    /\ UNCHANGED <<pipelineVars, script, fileVars, recordVars, notifyVars, connectVars,
                   bg, stop_event, loop, shutdown>>

\* myoware_collector3's run does not join: it prints and returns.
run_returns ==
    /\ quit = "joining"
    /\ script = "myoware_collector3"
    /\ quit' = "exited"
    /\ UNCHANGED <<pipelineVars, script, fileVars, recordVars, notifyVars, connectVars,
                   bg, stop_event, loop, shutdown>>

QuitNext ==
    \/ bg_loop
    \/ bg_connect_auto
    \/ bg_connected
    \/ bg_connect_raised
    \/ bg_connect_sensor
    \/ bg_start_notify
    \/ bg_stop_event
    \/ bg_wait
    \/ bg_stop_notify
    \/ bg_disconnect
    \/ on_key_q
    \/ close_window
    \/ run_finally
    \/ join_returns
    \/ join_timeout
    \/ run_returns

QuitInit ==
    /\ PipelineAtRest
    /\ script \in Scripts
    /\ data_dir = {}
    /\ saved = <<>>
    /\ RecorderGlobals
    /\ NotifyGlobals
    /\ ConnectGlobals
    /\ QuitGlobals

\* Both threads are scheduled: a step of the BLE thread that can be taken is
\* taken, and so is a step of the UI thread once the window is closed.  The
\* key press and the closing of the window are the user's.
QuitSpec ==
    /\ QuitInit
    /\ [][QuitNext]_vars
    /\ WF_vars(bg_loop)
    /\ WF_vars(bg_connect_auto)
    /\ WF_vars(bg_connected)
    /\ WF_vars(bg_connect_raised)
    /\ WF_vars(bg_connect_sensor)
    /\ WF_vars(bg_start_notify)
    /\ WF_vars(bg_stop_event)
    /\ WF_vars(bg_wait)
    /\ WF_vars(bg_stop_notify)
    /\ WF_vars(bg_disconnect)
    /\ WF_vars(run_finally)
    /\ WF_vars(join_returns)
    /\ WF_vars(join_timeout)
    /\ WF_vars(run_returns)

----------------------------------------------------------------------------
(* Properties *)

IsPrefix(a, b) == Len(a) <= Len(b) /\ SubSeq(b, 1, Len(a)) = a

\* The last PREDICTION_SMOOTH_WINDOW entries of a log (all of a shorter one).
Recent(log) ==
    IF Len(log) <= PREDICTION_SMOOTH_WINDOW
    THEN log
    ELSE LastN(log, PREDICTION_SMOOTH_WINDOW)

\* The labels whose count in a history is maximal.
Modes(history) ==
    {l \in Labels : /\ Count(l, history) > 0
                    /\ \A m \in Labels : Count(m, history) <= Count(l, history)}

\* The label-change events of a label sequence: its first label and every
\* label that differs from the one before it.
RECURSIVE Changes(_)
Changes(labels) ==
    IF Len(labels) <= 1
    THEN labels
    ELSE LET front == SubSeq(labels, 1, Len(labels) - 1)
         IN  IF labels[Len(labels)] = labels[Len(labels) - 1]
             THEN Changes(front)
             ELSE Append(Changes(front), labels[Len(labels)])

DispatchedLabels == [i \in DOMAIN dispatched |-> dispatched[i].label]

\* stage a runs before stage b in the last classification step
RunsBefore(a, b) ==
    \E i, j \in DOMAIN stages : i < j /\ stages[i] = a /\ stages[j] = b

\* C1: in the live loop a classification attempt happens only when both
\* channel buffers hold at least WINDOW_SIZE samples, it records the length
\* of M1's buffer as the marker, and the marker it records exceeds the marker
\* of the attempt before it by at least STEP_SIZE.
C1_AttemptsThrottled ==
    [][Len(raw_log') > Len(raw_log) =>
          /\ Len(M1) >= WINDOW_SIZE
          /\ Len(M2) >= WINDOW_SIZE
          /\ last_step' = Len(M1)
          /\ last_step' - last_step >= STEP_SIZE]_vars

\* C1 witness: two attempts have happened, the second STEP_SIZE samples
\* after the first.
C1_Witness ==
    /\ Len(raw_log) = 2
    /\ last_step = WINDOW_SIZE + STEP_SIZE

\* C2: the dispatcher dispatches exactly once per label-change event of the
\* labels it is handed (the first label and every label that differs from
\* its predecessor), and the sequence A,A,A,B,B,A gives exactly 3 dispatches.
C2_DispatchOncePerChange ==
    /\ DispatchedLabels = Changes(labels_in)
    /\ \A A, B \in Labels :
           (A # B /\ labels_in = <<A, A, A, B, B, A>>) => Len(dispatched) = 3

\* C2 witness: the sequence A,A,A,B,B,A was handed in and dispatched 3 times.
C2_Witness ==
    \E A, B \in Labels :
        /\ A # B
        /\ labels_in = <<A, A, A, B, B, A>>
        /\ DispatchedLabels = <<A, B, A>>

\* C3: in every classification step of the loop that drives the servo arm
\* the stages run in the order window, features, classify, smooth, dispatch,
\* and the label handed to the dispatcher is a majority-vote label of the
\* recent raw predictions.
C3_SmoothedLabelDispatched ==
    (program = "pipeline" /\ Len(labels_in) > 0) =>
        /\ RunsBefore("window", "features")
        /\ RunsBefore("features", "classify")
        /\ RunsBefore("classify", "smooth")
        /\ RunsBefore("smooth", "dispatch")
        /\ \A i \in DOMAIN labels_in :
               labels_in[i] \in Modes(Recent(SubSeq(raw_log, 1, i)))

\* C4: after each push, classify returns a label whose count in the current
\* prediction history is maximal; after A,A,B,A,B it returns A and after
\* A,B,B,A,B it returns B.
C4_SmoothedIsMode ==
    Len(raw_log) > 0 =>
        /\ smoothed \in Labels
        /\ \A l \in Labels :
               Count(l, prediction_history) <= Count(smoothed, prediction_history)
        /\ \A A, B \in Labels :
               A # B => /\ raw_log = <<A, A, B, A, B>> => smoothed = A
                        /\ raw_log = <<A, B, B, A, B>> => smoothed = B

\* C4 witness: the history A,B,B,A,B, smoothed to B although A came first.
C4_Witness ==
    \E A, B \in Labels :
        /\ A # B
        /\ raw_log = <<A, B, B, A, B>>
        /\ prediction_history = raw_log
        /\ smoothed = B

\* C5: after k classify calls prediction_history is the last
\* min(k, PREDICTION_SMOOTH_WINDOW) raw predictions in arrival order.
C5_HistoryIsRecentRaw ==
    /\ Len(prediction_history) <= PREDICTION_SMOOTH_WINDOW
    /\ prediction_history = Recent(raw_log)

\* C5 witness: more calls than the window holds, and the evicted (oldest)
\* prediction differs from the newest one it made room for.
C5_Witness ==
    /\ Len(raw_log) > PREDICTION_SMOOTH_WINDOW
    /\ raw_log[1] # raw_log[Len(raw_log)]
    /\ Len(prediction_history) = PREDICTION_SMOOTH_WINDOW

C7_WindowIsBufferTail ==
    held_fresh =>
        IF Len(M1) >= WINDOW_SIZE
        THEN /\ held.kind = "list"
             /\ Contents(held, M1) = SubSeq(M1, Len(M1) - WINDOW_SIZE + 1, Len(M1))
        ELSE held.kind = "None"

\* C7 witness: a window was just returned from a buffer longer than the
\* window whose first sample (outside the window) is the only nonzero one.
C7_Witness ==
    /\ held_fresh
    /\ held.kind = "list"
    /\ Len(M1) > WINDOW_SIZE
    /\ M1[1] # 0
    /\ \A i \in DOMAIN held.items : held.items[i] = 0

\* C8: appending to the stream leaves the contents (and so the length) of a
\* window that was returned earlier unchanged.
C8_WindowIsSnapshot ==
    [][(held.kind = "list" /\ M1' # M1) =>
           Contents(held', M1') = Contents(held, M1)]_vars

\* C8 witness: a nonzero sample was appended after the held window, which
\* reads all zeros, was returned.
C8_Witness ==
    /\ held.kind = "list"
    /\ ~held_fresh
    /\ M1[Len(M1)] # 0
    /\ \A i \in 1..WINDOW_SIZE : Contents(held, M1)[i] = 0

\* C9: while M1 or M2 holds fewer than WINDOW_SIZE samples, a loop pass
\* defers: nothing is classified, the marker, the prediction history and the
\* dispatch state stay as they are, and the loop is still running afterwards.
C9_DefersUntilReady ==
    [][(Len(M1) < WINDOW_SIZE \/ Len(M2) < WINDOW_SIZE) =>
           /\ raw_log' = raw_log
           /\ last_step' = last_step
           /\ prediction_history' = prediction_history
           /\ last_pred' = last_pred
           /\ current_image_class' = current_image_class
           /\ dispatched' = dispatched
           /\ task' = "running"
           /\ loop_outcome' \in {loop_outcome, "not_ready"}]_vars

\* C9 witness: the last loop pass deferred with M1 full and M2 one sample
\* short of a window.
C9_Witness ==
    /\ loop_outcome = "not_ready"
    /\ Len(M1) >= WINDOW_SIZE
    /\ Len(M2) = WINDOW_SIZE - 1
    /\ task = "running"

\* C10: each channel buffer is append-only: a step that changes it adds
\* exactly one sample at the end and keeps every earlier element in place;
\* no step, notification or loop pass, shortens it.
C10_BuffersAppendOnly ==
    [][/\ IsPrefix(M1, M1') /\ Len(M1') <= Len(M1) + 1
       /\ IsPrefix(M2, M2') /\ Len(M2') <= Len(M2) + 1]_vars

\* C10 witness: both buffers have grown past a window and the loop has
\* classified twice.
C10_Witness ==
    /\ Len(M1) > WINDOW_SIZE
    /\ Len(M2) > WINDOW_SIZE
    /\ Len(raw_log) >= 2
    /\ loop_outcome = "throttled"

\* C11: within one channel the buffer is the sequence of all accepted
\* (numeric) samples in arrival order: nothing is reordered or dropped, and
\* of two equal consecutive values both are kept.
C11_BufferIsArrivals ==
    M1 = arrivals

\* C11 witness: the buffer holds two equal consecutive values followed by a
\* different one.
C11_Witness ==
    /\ Len(M1) >= 3
    /\ M1[Len(M1) - 2] = M1[Len(M1) - 1]
    /\ M1[Len(M1)] # M1[Len(M1) - 1]
    /\ M1 = arrivals

\* C12: a notification whose payload is not a number leaves the buffer
\* unchanged and lets no exception escape from handle, and the valid sample
\* that follows it is appended.
C12_MalformedDropped ==
    [][/\ last_data' = "x" => (M1' = M1 /\ ~handle_raised')
       /\ (last_data = "x" /\ last_data' \in Numeric) =>
              M1' = Append(M1, float(last_data'))]_vars

\* C12 witness: a malformed payload arrived between valid samples, and the
\* sample after it is in the buffer.
C12_Witness ==
    /\ malformed_seen
    /\ last_data \in Numeric
    /\ Len(M1) >= 2
    /\ M1[Len(M1)] = float(last_data)
    /\ ~handle_raised

\* C13: when loading the scaler or the model fails, the live mode ends with
\* that error before anything else has happened: no sensor connection is
\* opened, no sample is buffered, no pass of the loop runs, nothing is
\* classified and nothing is dispatched.
C13_LoadFailureEndsStartup ==
    (task # "start" /\ scaler_features = 0) =>
        /\ task = "load_failed"
        /\ ~connected
        /\ M1 = <<>> /\ M2 = <<>>
        /\ loop_outcome = "none" /\ stages = <<>>
        /\ raw_log = <<>> /\ labels_in = <<>> /\ dispatched = <<>>

C13_Witness ==
    /\ task = "load_failed"
    /\ scaler_features = 0
    /\ ~connected

\* C14: artifacts fit on another number of features than the 16 of the live
\* feature row are a fatal error of start-up: the loop is never entered
\* with them, and the mismatch never ends a classification step.
C14_MismatchFatalAtStartup ==
    (scaler_features # 0 /\ transform_raises(scaler_features)) =>
        /\ task \notin {"running", "cancelled", "interrupted"}
        /\ ~(task = "crashed" /\ "scale" \in {stages[i] : i \in DOMAIN stages})

\* C15: in every classification step the feature row goes through
\* scaler.transform before model.predict sees it: the step that produced a
\* raw prediction ran scale after features and before every classify.
C15_ScaledBeforePredict ==
    Len(raw_log) > 0 =>
        /\ RunsBefore("features", "scale")
        /\ \A j \in DOMAIN stages :
               stages[j] = "classify" =>
                   \E i \in 1..(j - 1) : stages[i] = "scale"
        /\ ~RunsBefore("classify", "scale")

\* C15 witness: a step of run_live has classified.
C15_Witness ==
    /\ loop_outcome = "classified"
    /\ program = "live"
    /\ Len(raw_log) > 0
    /\ RunsBefore("scale", "classify")

\* C16: a label that has no servo action configured (any label other than
\* flat_hand and closed_fist) gets the explicit "no action mapped" outcome
\* and no servo action; the dispatcher raises nothing, so the loop is still
\* running after it and goes on classifying.
C16_UnmappedLabelReported ==
    program = "pipeline" =>
        /\ \A i \in DOMAIN dispatched :
               dispatched[i].label \notin {"flat_hand", "closed_fist"} =>
                   /\ dispatched[i].action = "no_action"
                   /\ dispatched[i].action \notin {"reset", "close_fist"}
        /\ (Len(dispatched) > 0 /\ loop_outcome # "none") => task = "running"

\* C16 witness: pinch was dispatched with "no action mapped", and the loop
\* classified and dispatched again after it.
C16_Witness ==
    /\ program = "pipeline"
    /\ task = "running"
    /\ \E i \in DOMAIN dispatched :
           /\ dispatched[i] = [label |-> "pinch", action |-> "no_action"]
           /\ i < Len(dispatched)
           /\ i < Len(raw_log)

\* A stop leaves the step untouched: marker, history and dispatch state are
\* what they were.
StepUntouched ==
    /\ last_step' = last_step
    /\ prediction_history' = prediction_history
    /\ last_pred' = last_pred
    /\ current_image_class' = current_image_class
    /\ labels_in' = labels_in
    /\ dispatched' = dispatched

\* A stop leaves the step complete: the marker is the length of M1, the raw
\* prediction is in the history, the dispatch state is the label handed over
\* and, if that label is a new one, its action has run.
StepComplete ==
    /\ last_step' = Len(M1)
    /\ Len(raw_log') = Len(raw_log) + 1
    /\ Len(labels_in') = Len(labels_in) + 1
    /\ LET pred == raw_log'[Len(raw_log')]
           label == labels_in'[Len(labels_in')]
           before == IF program = "live" THEN current_image_class ELSE last_pred
           after == IF program = "live" THEN current_image_class' ELSE last_pred'
       IN  /\ program = "live" =>
                  prediction_history' = push_history(prediction_history, pred)
           /\ after = label
           /\ is_repeat(label, before) => dispatched' = dispatched
           /\ ~is_repeat(label, before) =>
                  /\ Len(dispatched') = Len(dispatched) + 1
                  /\ IsPrefix(dispatched, dispatched')
                  /\ dispatched'[Len(dispatched')].label = label

\* C17: a stop or cancel signal never leaves a classification step half
\* applied: on the step that ends the loop, either the throttle marker, the
\* prediction history and the dispatch state are all updated and the action
\* has run, or none of them has changed.
C17_StopIsAtomic ==
    [][(task = "running" /\ task' \in {"cancelled", "interrupted"}) =>
           (StepUntouched \/ StepComplete)]_vars

\* The value is the whole number n (or, for a root, its square is n).
IsWhole(v, n) == v.num = n * v.den

\* C18: window_to_vector returns one row of 16 values: the 8 features of the
\* first window in the key order rms, mean_abs, waveform_length, zero_cross,
\* slope_changes, var, std, max, then the same 8 of the second window;
\* swapping the windows swaps the two halves and changes nothing else.
C18_RowIsM1ThenM2 ==
    row # <<>> =>
        /\ Len(row) = 16
        /\ keys = <<"rms", "mean_abs", "waveform_length", "zero_cross",
                    "slope_changes", "var", "std", "max">>
        /\ \A k \in 1..8 :
               /\ row[k] = compute_features(win1)[keys[k]]
               /\ row[8 + k] = compute_features(win2)[keys[k]]
        /\ window_to_vector(win2, win1) = SubSeq(row, 9, 16) \o SubSeq(row, 1, 8)

\* C18 witness: a row was built from two windows whose features differ.
C18_Witness ==
    /\ Len(row) = 16
    /\ win1 # win2
    /\ SubSeq(row, 1, 8) # SubSeq(row, 9, 16)

\* C19: for a window of length 1, compute_features returns
\* waveform_length = 0, zero_cross = 0 and slope_changes = 0, and does not
\* raise.
C19_SingleSampleWindow ==
    (row # <<>> /\ Len(win1) = 1) =>
        /\ ~compute_features_raises(win1)
        /\ feats.waveform_length = Whole(0)
        /\ feats.zero_cross = Whole(0)
        /\ feats.slope_changes = Whole(0)

\* C19 witness: the features of a one-sample window with a nonzero sample.
C19_Witness ==
    /\ row # <<>>
    /\ Len(win1) = 1
    /\ win1[1] # 0
    /\ feats = compute_features(win1)
    /\ feats.waveform_length = Whole(0)

\* The values of the ramp's features in the row.
RampValues ==
    /\ IsWhole(feats.mean_abs, 3) /\ ~feats.mean_abs.root
    /\ feats.waveform_length = Whole(4)
    /\ IsWhole(feats.var, 2) /\ ~feats.var.root
    /\ IsWhole(feats.rms, 11) /\ feats.rms.root
    /\ IsWhole(feats.std, 2) /\ feats.std.root
    /\ feats.max = Whole(5)
    /\ SubSeq(row, 1, 8) = [k \in 1..8 |-> feats[keys[k]]]

\* C20 as stated: for the window [1,2,3,4,5] the feature vector has
\* mean_abs = 3, waveform_length = 4, var = 2, rms^2 = 11, std^2 = 2,
\* max = 5 and a min feature equal to 1.
C20_RampFeaturesWithMin ==
    (row # <<>> /\ win1 = Ramp) =>
        /\ RampValues
        /\ \E k \in DOMAIN keys : keys[k] = "min" /\ row[k] = Whole(1)

\* C20 amended: for the window [1,2,3,4,5] the feature vector has
\* mean_abs = 3, waveform_length = 4, var = 2, rms^2 = 11, std^2 = 2 and
\* max = 5; it has no min feature: the vector holds exactly the 8 features
\* rms, mean_abs, waveform_length, zero_cross, slope_changes, var, std, max.
C20_RampFeatures ==
    (row # <<>> /\ win1 = Ramp) =>
        /\ RampValues
        /\ \A k \in DOMAIN keys : keys[k] # "min"
        /\ "min" \notin DOMAIN feats
        /\ Len(keys) = 8

\* C20 witness: the features of the ramp were extracted.
C20_Witness ==
    /\ win1 = Ramp
    /\ row = window_to_vector(Ramp, win2)
    /\ feats.max = Whole(5)

\* The value is the square root of a * a, that is |a|.
IsRootOfSquare(v, a) == v.root /\ v.num = a * a * v.den

\* C21: for a constant window of length at least 2 with value c,
\* compute_features returns var = 0, std = 0, rms = |c| and
\* waveform_length = 0.
C21_ConstantWindow ==
    (row # <<>> /\ Len(win1) >= 2 /\ \A i \in DOMAIN win1 : win1[i] = win1[1]) =>
        /\ IsWhole(feats.var, 0) /\ ~feats.var.root
        /\ IsWhole(feats.std, 0)
        /\ IsRootOfSquare(feats.rms, win1[1])
        /\ feats.waveform_length = Whole(0)

\* C21 witness: the features of a flat window of value -2 were extracted.
C21_Witness ==
    /\ row # <<>>
    /\ Len(win1) >= 2
    /\ \A i \in DOMAIN win1 : win1[i] = -2
    /\ IsRootOfSquare(feats.rms, 2)

\* C22: the actions the dispatcher maps a label to (flat_hand -> reset,
\* closed_fist -> close_fist) are idempotent: from every reachable arm
\* state, running the action twice leaves every servo where running it once
\* left it.
C22_MappedActionsIdempotent ==
    \A label \in {"flat_hand", "closed_fist"} :
        LET action == arm_action(label)
            once == run_arm_action(action, arm)
            twice == run_arm_action(action, once)
        IN  /\ action \in {"reset", "close_fist"}
            /\ \A i \in ServoIds :
                   /\ twice.curr_pos[i] = once.curr_pos[i]
                   /\ twice.angle[i] = once.angle[i]

\* C22 witness: an arm state that is neither the default pose nor the fist,
\* with a servo moved to a bound, on which both actions do something.
C22_Witness ==
    /\ arm_sets > 0
    /\ reset(arm) # arm
    /\ close_fist(arm) # arm
    /\ arm.curr_pos[0] = start_deg(0)

\* C30: after any sequence of Arm operations (the poses, opening and closing
\* fingers, the waves, reset, set_servo_pos with any target) every servo's
\* curr_pos lies within its own [start_deg, end_deg] and equals the angle
\* last written to the kit channel of that servo.
C30_ServosInBoundsAndInSync ==
    \A i \in ServoIds :
        /\ start_deg(i) <= arm.curr_pos[i]
        /\ arm.curr_pos[i] <= end_deg(i)
        /\ arm.curr_pos[i] = arm.angle[i]

\* C30 witness: a target below a servo's lower bound was refused after
\* poses had moved other servos, and a servo sits on its upper bound.
C30_Witness ==
    /\ arm_sets > 0
    /\ arm # NewArm
    /\ arm.curr_pos[5] = default_pos(5)
    /\ arm.curr_pos[8] = end_deg(8)
    /\ arm.curr_pos[1] = 180

\* C23: a single raw prediction that differs from the current smoothed label
\* (a label the history does not hold yet) never changes the smoothed output
\* by itself, whatever the history holds, histories of fewer than
\* PREDICTION_SMOOTH_WINDOW entries included.
C23_SingleOutlierDebounced ==
    [][(/\ Len(raw_log') = Len(raw_log) + 1
        /\ smoothed \in Labels
        /\ raw_log'[Len(raw_log')] # smoothed
        /\ Count(raw_log'[Len(raw_log')], prediction_history) = 0)
       => smoothed' = smoothed]_vars

\* Index of the first occurrence of a label that occurs in the history.
FirstSeen(label, history) ==
    CHOOSE i \in DOMAIN history :
        history[i] = label /\ \A j \in 1..(i - 1) : history[j] # label

\* Place of a label in the sorted order of the labels.
Rank(label) == CHOOSE k \in DOMAIN LabelOrder : LabelOrder[k] = label

\* C24 as stated: when two or more labels share the highest count, the
\* smoother returns the one of them seen first (oldest occurrence) in the
\* current history.
C24_TieGoesToFirstSeen ==
    Len(raw_log) > 0 =>
        /\ smoothed \in Modes(prediction_history)
        /\ \A m \in Modes(prediction_history) :
               FirstSeen(smoothed, prediction_history)
                   <= FirstSeen(m, prediction_history)

\* C24 amended: when two or more labels share the highest count, the
\* smoother returns the one of them that comes first in sorted label order
\* (np.unique sorts, np.argmax takes the first maximum), wherever the labels
\* occur in the history.
C24_TieGoesToSmallestLabel ==
    Len(raw_log) > 0 =>
        /\ smoothed \in Modes(prediction_history)
        /\ \A m \in Modes(prediction_history) : Rank(smoothed) <= Rank(m)

\* C24 witness: a tie in which the label returned is not the one seen first.
C24_Witness ==
    /\ Len(prediction_history) = PREDICTION_SMOOTH_WINDOW
    /\ Cardinality(Modes(prediction_history)) = 2
    /\ smoothed \in Modes(prediction_history)
    /\ \E m \in Modes(prediction_history) :
           /\ FirstSeen(m, prediction_history) < FirstSeen(smoothed, prediction_history)
           /\ Rank(smoothed) < Rank(m)

\* Two samples have different signs, zero being a sign of its own.
SignsDiffer(x, y) ==
    ~((x < 0 /\ y < 0) \/ (x = 0 /\ y = 0) \/ (x > 0 /\ y > 0))

\* Number of adjacent pairs of a sequence whose signs differ.
SignChanges(x) ==
    Cardinality({i \in 1..(Len(x) - 1) : SignsDiffer(x[i], x[i + 1])})

\* C25: zero_cross is the number of adjacent sample pairs (x[i], x[i+1])
\* whose signs differ, a zero sample having its own sign; slope_changes is
\* the same count taken over the first difference of x.
C25_SignChangeCounts ==
    row # <<>> =>
        /\ feats.zero_cross = Whole(SignChanges(win1))
        /\ feats.slope_changes =
               Whole(SignChanges([i \in 1..(Len(win1) - 1) |-> win1[i + 1] - win1[i]]))

\* C25 witness: a window that touches zero between two positive samples:
\* two sign changes, and one change of slope.
C25_Witness ==
    /\ row # <<>>
    /\ win1 = <<1, 0, 1>>
    /\ feats.zero_cross = Whole(2)
    /\ feats.slope_changes = Whole(1)

\* C26: the windows of one classification attempt are a consistent
\* snapshot: under every interleaving of notifications with the loop, no
\* sample is appended to either buffer between the reading of the two
\* windows and the recording of the marker, so at the moment last_step is
\* recorded each classified window is the trailing WINDOW_SIZE samples of
\* its buffer.
C26_WindowsAreSnapshot ==
    [][/\ (task # "running" /\ task' # "running") => (M1' = M1 /\ M2' = M2)
       /\ Len(raw_log') > Len(raw_log) =>
              /\ win1 = LastN(M1', WINDOW_SIZE)
              /\ win2 = LastN(M2', WINDOW_SIZE)
              /\ last_step' = Len(M1')]_vars

\* C26 witness: an attempt has classified windows read after M1 had grown
\* past one window, with M2 at a different length.
C26_Witness ==
    /\ Len(raw_log) = 1
    /\ task = "running"
    /\ last_step = WINDOW_SIZE + 1
    /\ Len(M2) = WINDOW_SIZE
    /\ win1 = LastN(M1, WINDOW_SIZE)
    /\ win1 # win2

\* C27: between two consecutive classification attempts every channel
\* buffer, M2 as well as M1, has grown by at least STEP_SIZE samples, so no
\* attempt classifies a channel window identical to the one the attempt
\* before it used.
C27_BothChannelsAdvance ==
    [][(Len(raw_log') > Len(raw_log) /\ Len(raw_log) > 0) =>
           /\ Len(M1) - prev_attempt.len1 >= STEP_SIZE
           /\ Len(M2) - prev_attempt.len2 >= STEP_SIZE
           /\ win1 # prev_attempt.w1
           /\ win2 # prev_attempt.w2]_vars

\* C28: under fair scheduling of the loop, whenever both channels hold at
\* least WINDOW_SIZE samples and at least STEP_SIZE samples have arrived on
\* M1 since the last attempt, a classification attempt eventually happens;
\* and with both sensors delivering, attempts do occur.
C28_DueLeadsToAttempt ==
    /\ (/\ Len(M1) >= WINDOW_SIZE
        /\ Len(M2) >= WINDOW_SIZE
        /\ Len(M1) - last_step >= STEP_SIZE)
           ~> (loop_outcome = "classified" /\ last_step = Len(M1))
    /\ <>(Len(raw_log) > 0)

\* C28 witness: a second attempt has happened, later than the sample that
\* made it due.
C28_Witness ==
    /\ Len(raw_log) = 2
    /\ loop_outcome = "classified"
    /\ last_step = Len(M1)
    /\ last_step > WINDOW_SIZE + STEP_SIZE

\* C29: the dispatch state is updated for every changed label, mapped or
\* not: after the dispatcher has received [A, U, A] with A mapped and U
\* unmapped, last_pred is A, A's action has been invoked twice (the first
\* and the third call), U's call moved nothing, and the arm is in A's pose.
C29_UnmappedCountsAsChange ==
    \A A \in {"flat_hand", "closed_fist"}, U \in Labels \ {"flat_hand", "closed_fist"} :
        (program = "pipeline" /\ labels_in = <<A, U, A>>) =>
            /\ last_pred = A
            /\ dispatched = << [label |-> A, action |-> arm_action(A)],
                               [label |-> U, action |-> "no_action"],
                               [label |-> A, action |-> arm_action(A)] >>
            /\ arm_action(A) # "no_action"
            /\ arm = run_arm_action(arm_action(A), NewArm)

\* C29 witness: closed_fist, pinch, closed_fist has been dispatched and the
\* fist was closed twice.
C29_Witness ==
    /\ program = "pipeline"
    /\ labels_in = <<"closed_fist", "pinch", "closed_fist">>
    /\ Len(dispatched) = 3
    /\ dispatched[3].action = "close_fist"
    /\ last_pred = "closed_fist"

\* C31: Arm.set_servo_pos with a target outside the servo's
\* [start_deg, end_deg] is rejected: the call returns the arm as it found it
\* (curr_pos and kit angle of every servo unchanged); a target equal to
\* either bound is accepted and moves that servo, and only that servo, to it.
C31_OutOfBoundsRejected ==
    \A servo_id \in ServoIds :
        \A new_pos \in Targets(servo_id) :
            LET after == set_servo_pos(arm, servo_id, new_pos)
            IN  IF new_pos < start_deg(servo_id) \/ new_pos > end_deg(servo_id)
                THEN after = arm
                ELSE /\ after.curr_pos[servo_id] = new_pos
                     /\ after.angle[servo_id] = new_pos
                     /\ \A other \in ServoIds \ {servo_id} :
                            /\ after.curr_pos[other] = arm.curr_pos[other]
                            /\ after.angle[other] = arm.angle[other]

\* C31 witness: a direct call has run on an arm that a pose had moved, and
\* from that arm a target beyond a bound is refused while the bound itself
\* would move the servo.
C31_Witness ==
    /\ arm_sets > 0
    /\ arm.curr_pos[3] = 180
    /\ arm.curr_pos[0] = default_pos(0)
    /\ set_servo_pos(arm, 0, end_deg(0) + 1) = arm
    /\ set_servo_pos(arm, 0, end_deg(0)) # arm

\* The last label of a sequence that has an arm action, None if there is none.
LastMapped(labels) ==
    LET mapped == {i \in DOMAIN labels : labels[i] \in {"flat_hand", "closed_fist"}}
    IN  IF mapped = {} THEN None
        ELSE labels[CHOOSE i \in mapped : \A j \in mapped : j <= i]

\* Every servo at its default position.
DefaultPose == [i \in ServoIds |-> default_pos(i)]

\* The closed fist on an otherwise untouched hand: the two joints of each
\* finger and the thumb joint turned in, every other servo at its default.
FistPose ==
    [i \in ServoIds |->
        IF i \in {1, 3, 4, 7, 9, 10, 12, 13} THEN 180
        ELSE IF i = 6 THEN 0
        ELSE default_pos(i)]

\* C32: in live streaming mode, after any sequence of dispatched labels, the
\* positions of all 16 servos (curr_pos and kit angle) depend only on the
\* most recently dispatched mapped label: all defaults if there is none or
\* it is flat_hand, the closed-fist positions if it is closed_fist.
C32_PoseFromLastMappedLabel ==
    program = "pipeline" =>
        LET pose == IF LastMapped(labels_in) = "closed_fist" THEN FistPose
                    ELSE DefaultPose
        IN  /\ arm.curr_pos = pose
            /\ arm.angle = pose

\* C32 witness: the fist was closed, opened and closed again with an
\* unmapped label last, and the arm holds the fist.
C32_Witness ==
    /\ program = "pipeline"
    /\ labels_in = <<"closed_fist", "flat_hand", "closed_fist", "pinch">>
    /\ Len(dispatched) = 4
    /\ arm.curr_pos = FistPose

\* C32 witness, the other pose: flat_hand after closed_fist has brought every
\* servo back to its default.
C32_WitnessOpened ==
    /\ program = "pipeline"
    /\ labels_in = <<"closed_fist", "pinch", "flat_hand">>
    /\ arm.curr_pos = DefaultPose

\* The numbers of the files of a label in a directory, as the pattern of
\* next_sequential_filename reads them.
NumbersOf(dir, slug) ==
    {int(name.digits) : name \in {f \in dir : pattern_match(f, slug, "csv")}}

\* The name the save of this step chose.
NewName == saved'[Len(saved')]

\* The numbers the earlier saves of this run chose for a label.
EarlierNumbers(slug) ==
    {int(saved[i].digits) : i \in {j \in DOMAIN saved : saved[j].slug = slug}}

\* What every save does, whichever script runs: the name is
\* '<label>_<n>.csv' with n written without leading zeros, no file of the
\* directory has that name, and n is larger than every n chosen before for
\* that label.
SaveIsFresh ==
    /\ NewName \notin data_dir
    /\ NewName.slug \in Slugs
    /\ NewName.ext = "csv"
    /\ NewName.digits = str(int(NewName.digits))
    /\ int(NewName.digits) >= 1
    /\ \A n \in EarlierNumbers(NewName.slug) : n < int(NewName.digits)
    /\ data_dir \subseteq data_dir'

\* n is one more than the largest existing n of the label (1 if the label
\* has no file).
OneMoreThanLargest ==
    LET numbers == NumbersOf(data_dir, NewName.slug)
        n == int(NewName.digits)
    IN  /\ \A m \in numbers : m < n
        /\ IF numbers = {} THEN n = 1 ELSE n - 1 \in numbers

C36_WitnessSequential ==
    /\ script = "myoware_collector"
    /\ Len(saved) = 1
    /\ saved[1] = FileName("flat_hand", <<1, 0>>, "csv")
    /\ FileName("FLAT_HAND", <<4>>, "csv") \in data_dir

\* The values of a sequence of rows, in order.
Values(rs) == [i \in DOMAIN rs |-> rs[i].value]

\* SPACE was pressed in this step.
SpacePressed == Len(keys_in') > Len(keys_in) /\ keys_in'[Len(keys_in')] = " "

\* What C33 says of starting: SPACE with no label chosen leaves recording
\* false and the rows untouched, recording only becomes true while a label
\* is selected, and every row carries a label.
StartNeedsLabel ==
    /\ (SpacePressed /\ label_slug = None) => (~recording' /\ rows' = rows /\ ui' = "idle")
    /\ (recording' /\ ~recording) => label_slug \in Slugs
    /\ \A i \in DOMAIN rows' : rows'[i].label \in Slugs

\* C33 as stated: recording can only be started while a label is selected
\* (SPACE with no label leaves recording false and the rows untouched), and
\* every row appended to rows is appended while recording is true and
\* carries a non-empty label.
C33_RowsOnlyWhileRecording ==
    [][/\ StartNeedsLabel
       /\ Len(rows') > Len(rows) => recording]_vars

\* C33 amended: as above, but of a row it only holds that _handle_line
\* found recording true when it tested it under the lock (the line is one
\* received while recording was true); on_key may have cleared the flag by
\* the time the row is appended.
C33_RowsOnlyOfRecordedLines ==
    [][/\ StartNeedsLabel
       /\ Len(rows') > Len(rows) =>
              /\ rows' = Append(rows, rows'[Len(rows')])
              /\ IsPrefix(Values(rows'), session)]_vars

\* C33 witness: SPACE was pressed before any label, then a label was chosen,
\* a recording started and a line became a row.
C33_Witness ==
    /\ Len(keys_in) >= 3
    /\ keys_in[1] = " "
    /\ keys_in[2] \in Slugs
    /\ keys_in[3] = " "
    /\ recording
    /\ Len(rows) = 1
    /\ lines_in = 2

\* C34: a saved session contains exactly the samples of that session:
\* starting a recording leaves no row of an earlier session, and the rows
\* written on stop are the lines received between the start and the stop of
\* that recording, in arrival order.
C34_FileIsTheSession ==
    [][/\ (recording' /\ ~recording) => rows' = <<>>
       /\ Len(csv_files') > Len(csv_files) =>
              LET file == csv_files'[Len(csv_files')]
              IN  /\ Values(file.rows) = session
                  /\ file.rows = rows
                  /\ Len(session) > 0]_vars

\* C34 witness: two sessions were saved, the second with the one line that
\* arrived after it started, while a line arrived between the sessions.
C34_Witness ==
    /\ Len(csv_files) = 2
    /\ Values(csv_files[1].rows) = <<1>>
    /\ Values(csv_files[2].rows) = <<3>>
    /\ lines_in = 3

\* C35: all rows written to one session's CSV carry the same label slug,
\* and it is the slug in that CSV's file name.
C35_OneLabelPerFile ==
    \A i \in DOMAIN csv_files :
        \A j \in DOMAIN csv_files[i].rows :
            csv_files[i].rows[j].label = csv_files[i].name.slug

\* The characters delivered so far: the stream without the notifications
\* still to come.
RECURSIVE TotalLen(_)
TotalLen(texts) == IF texts = <<>> THEN 0 ELSE Len(texts[1]) + TotalLen(Tail(texts))

Delivered == SubSeq(stream, 1, Len(stream) - TotalLen(packets))

\* The numbers of each complete (newline-terminated) line of a text.
CompleteLines(text) ==
    LET parts == re_split(text)
    IN  handle_lines(<<>>, SubSeq(parts, 1, Len(parts) - 1))

\* C37: line reassembly is independent of packetisation: however the stream
\* of newline-terminated numeric lines is cut into notifications, the
\* samples appended are those of the complete lines delivered so far, one
\* entry per line, and no partial line yields a sample.
C37_SamplesIndependentOfPackets ==
    handled = CompleteLines(Delivered)

\* The steps of connect_auto that belong to the scan fallback.
ScanSteps == { i \in 1..Len(events) : events[i][1] \in {"scan", "scanned"} }

\* C38: connect_auto first connects directly; it scans only when that gave
\* no connected client, for a bounded time and not beyond the first match; it
\* ends either returned with self.client set to a connected client or raised
\* with no client set, and it never returns without a connected client.
C38_ConnectedOrRaised ==
    /\ events # <<>> => events[1][1] = "direct"
    /\ ScanSteps # {} => events[1][2] # "connected"
    /\ elapsed < SCAN_SECONDS + DISCOVER_TIMEOUT
    /\ \A i \in ScanSteps : (events[i] = <<"scan", "match">> /\ i < Len(events)) =>
           events[i + 1] = <<"scan", "over">>
    /\ conn = "returned" <=> client # None
    /\ conn = "returned" => events[Len(events)][2] = "connected"
    /\ conn = "raised" => events[Len(events)][2] \in {"raised", "not_connected"}
    /\ conn \in {"returned", "raised"} \/ ENABLED ConnectNext

\* The direct connect raised, scans hiccuped until the last one matched late,
\* and the scanned device connected.
C38_Witness ==
    /\ conn = "returned"
    /\ client = "scanned"
    /\ events[1] = <<"direct", "raised">>
    /\ <<"scan", "hiccup">> \in { events[i] : i \in 1..Len(events) }
    /\ elapsed > SCAN_SECONDS

\* The BLE thread has tried to disconnect the client.
DisconnectTried == \E i \in 1..Len(shutdown) : shutdown[i][1] = "disconnect"

\* The BLE thread takes no further step.
BleThreadOver == quit = "exited" \/ bg \in {"done", "failed"}

\* C39: once Q is pressed or the window is closed, the BLE thread eventually
\* tries to disconnect the connected client, whether stop_notify failed or
\* not; with no client connected it just ends.
C39_QuitLeadsToDisconnect ==
    (quit # "show") ~> (DisconnectTried \/ (BleThreadOver /\ client = None))

====
